---- MODULE Spec2Model ----
(***************************************************************************)
(* Dispatch core of the agent/client protocol (rust/schema.rs).            *)
(*                                                                         *)
(* The acp_peer! macro is expanded twice, once per role.  The model keeps  *)
(* the macro's argument list as data (ClientCatalog, AgentCatalog) and     *)
(* writes every generated item as an operator over a catalog entry, the    *)
(* way the macro writes it over ($request_method, $request_method_string,  *)
(* $request_name, $param_payload, $response_name, $response_payload).      *)
(*                                                                         *)
(* Wire values are JSON values, typed values are what serde's derived      *)
(* Serialize / Deserialize produce for the declarations of schema.rs.      *)
(***************************************************************************)
EXTENDS Integers, Sequences, FiniteSets, TLC

VARIABLES
    op,         \* the last codec / correlation operation applied, with its result
    calls,      \* per dispatch call: its state, request, handler log and result
    conn,       \* the connected client/agent pair of the end-to-end scenario
    tracker     \* the tool calls a receiver of session updates keeps, by id

vars == <<op, calls, conn, tracker>>

(***************************************************************************)
(* Results and errors                                                      *)
(***************************************************************************)

None == [none |-> TRUE]

Some(x) == [some |-> x]

IsSome(o) == "some" \in DOMAIN o

Ok(v) == [ok |-> TRUE, val |-> v]

Err(e) == [ok |-> FALSE, err |-> e]

\* ErrorCode::X.into(): the code alone, no detail
into_error(code) == [code |-> code, detail |-> None]

\* ErrorCode::X.into_error_with_details(details)
into_error_with_details(code, details) == [code |-> code, detail |-> Some(details)]

ErrorCodes == {"ParseError", "MethodNotFound", "InternalError", "InvalidRequest"}

(***************************************************************************)
(* JSON values (what a RawValue holds once tokenised)                      *)
(***************************************************************************)

JNull == [j |-> "null"]

JBool(b) == [j |-> "bool", b |-> b]

JNum(n) == [j |-> "num", n |-> n]

JStr(s) == [j |-> "str", s |-> s]

JArr(a) == [j |-> "arr", a |-> a]

\* o is a function from member names to JSON values
JObj(o) == [j |-> "obj", o |-> o]

EmptyFcn == [k \in {} |-> JNull]

JEmptyObj == JObj(EmptyFcn)

\* the union of two member maps; the members of g win on a clash
Merge(f, g) == [k \in (DOMAIN f) \cup (DOMAIN g) |-> IF k \in DOMAIN g THEN g[k] ELSE f[k]]

(***************************************************************************)
(* Type descriptors: what #[derive(Serialize, Deserialize)] sees of a      *)
(* declaration (its shape, its wire names after rename_all, its field      *)
(* attributes).                                                            *)
(*                                                                         *)
(* Typed values: a struct is a record over its rust field names, a unit    *)
(* struct is UnitValue(name), a field-less enum is its rust variant name,  *)
(* an enum with struct variants is <<rust variant name, record of the      *)
(* variant's fields>>, Option is None / Some(x), Vec is a sequence, a      *)
(* newtype struct is its inner value.                                      *)
(***************************************************************************)

T_String == [k |-> "string"]

T_Bool == [k |-> "bool"]

T_U64 == [k |-> "u64"]

T_PathBuf == [k |-> "path"]

T_U32 == [k |-> "u32"]

T_I64 == [k |-> "i64"]

T_F64 == [k |-> "f64"]

\* serde_json::Value: any JSON value, kept as it is
T_Value == [k |-> "value"]

T_Option(t) == [k |-> "option", of |-> t]

T_Vec(t) == [k |-> "vec", of |-> t]

T_Newtype(name, t) == [k |-> "newtype", name |-> name, of |-> t]

\* `pub struct Name;`
T_Unit(name) == [k |-> "unit", name |-> name]

\* tag = "" when the struct carries no #[serde(tag = ...)]
T_Struct(name, tag, fields) == [k |-> "struct", name |-> name, tag |-> tag, fields |-> fields]

\* variants: sequence of [rust, wire]
T_UnitEnum(name, variants) == [k |-> "unit_enum", name |-> name, variants |-> variants]

\* #[serde(tag = tag)] enum; variants: sequence of [rust, wire, fields]
T_TaggedEnum(name, tag, variants) == [k |-> "tagged_enum", name |-> name, tag |-> tag, variants |-> variants]

\* #[serde(untagged)] enum of newtype variants; variants: sequence of
\* [rust, ty], tried in declaration order; a value is <<rust variant name, inner value>>
T_Untagged(name, variants) == [k |-> "untagged", name |-> name, variants |-> variants]

\* a plain field
F(rust, wire, ty) == [rust |-> rust, wire |-> wire, ty |-> ty, skip |-> FALSE, flatten |-> FALSE]

\* #[serde(skip_serializing_if = "Option::is_none")]
FSkip(rust, wire, ty) == [rust |-> rust, wire |-> wire, ty |-> ty, skip |-> TRUE, flatten |-> FALSE]

\* #[serde(default, skip_serializing_if = ...)] where the predicate holds of
\* the default value only (Option::is_none, Vec::is_empty, X::is_default)
FDefault(rust, wire, ty, default) ==
    [rust |-> rust, wire |-> wire, ty |-> ty, skip |-> TRUE, flatten |-> FALSE,
     default |-> default]

\* #[serde(flatten)]
FFlat(rust, ty) == [rust |-> rust, wire |-> "", ty |-> ty, skip |-> FALSE, flatten |-> TRUE]

V(rust, wire) == [rust |-> rust, wire |-> wire]

VS(rust, wire, fields) == [rust |-> rust, wire |-> wire, fields |-> fields]

\* a variant of an untagged enum
VT(rust, ty) == [rust |-> rust, ty |-> ty]

UnitValue(name) == [unit |-> name]

VariantOf(e) == e[1]

PayloadOf(e) == e[2]

WireNames(variants) == {variants[i].wire : i \in 1..Len(variants)}

ByWire(variants, w) == variants[CHOOSE i \in 1..Len(variants) : variants[i].wire = w]

ByRust(variants, r) == variants[CHOOSE i \in 1..Len(variants) : variants[i].rust = r]

(***************************************************************************)
(* Serialize (serde_json::to_string of a value of the described type)      *)
(***************************************************************************)

RECURSIVE Ser(_, _), SerFields(_, _)

\* the members a field list contributes to the enclosing object
SerFields(fields, v) ==
    IF fields = <<>> THEN EmptyFcn
    ELSE LET f == Head(fields)
             rest == SerFields(Tail(fields), v)
         IN  IF f.flatten THEN Merge(Ser(f.ty, v[f.rust]).o, rest)
             ELSE IF "default" \in DOMAIN f
             THEN (IF v[f.rust] = f.default THEN rest
                   ELSE Merge((f.wire :> Ser(f.ty, v[f.rust])), rest))
             ELSE IF f.skip /\ ~IsSome(v[f.rust]) THEN rest
             ELSE Merge((f.wire :> Ser(f.ty, v[f.rust])), rest)

Ser(ty, v) ==
    CASE ty.k = "string" -> JStr(v)
      [] ty.k = "bool" -> JBool(v)
      [] ty.k = "u64" -> JNum(v)
      [] ty.k = "path" -> JStr(v)
      [] ty.k \in {"u32", "i64", "f64"} -> JNum(v)
      [] ty.k = "value" -> v
      [] ty.k = "untagged" -> Ser(ByRust(ty.variants, VariantOf(v)).ty, PayloadOf(v))
      [] ty.k = "option" -> IF IsSome(v) THEN Ser(ty.of, v.some) ELSE JNull
      [] ty.k = "vec" -> JArr([i \in 1..Len(v) |-> Ser(ty.of, v[i])])
      [] ty.k = "newtype" -> Ser(ty.of, v)
      [] ty.k = "unit" -> JNull
      [] ty.k = "unit_enum" -> JStr(ByRust(ty.variants, v).wire)
      [] ty.k = "struct" ->
            JObj(Merge(IF ty.tag = "" THEN EmptyFcn ELSE (ty.tag :> JStr(ty.name)),
                       SerFields(ty.fields, v)))
      [] ty.k = "tagged_enum" ->
            LET var == ByRust(ty.variants, VariantOf(v))
            IN  JObj(Merge((ty.tag :> JStr(var.wire)), SerFields(var.fields, PayloadOf(v))))

(***************************************************************************)
(* Deserialize (serde_json::from_str into the described type).  The result *)
(* is Ok(value) or Err(diagnostic), the diagnostic being the text of the   *)
(* serde_json error.                                                       *)
(***************************************************************************)

RECURSIVE De(_, _), DeFieldsObj(_, _), DeFieldsArr(_, _), DeVec(_, _), DeUntagged(_, _)

\* a struct body read from a JSON object: members are looked up by wire
\* name, unknown members are skipped, a missing Option member is None
DeFieldsObj(fields, jv) ==
    IF fields = <<>> THEN Ok(EmptyFcn)
    ELSE LET f == Head(fields)
             r == IF f.flatten THEN De(f.ty, jv)
                  ELSE IF f.wire \in DOMAIN jv.o THEN De(f.ty, jv.o[f.wire])
                  ELSE IF "default" \in DOMAIN f THEN Ok(f.default)
                  ELSE IF f.ty.k = "option" THEN Ok(None)
                  ELSE Err("missing field")
         IN  IF ~r.ok THEN r
             ELSE LET rest == DeFieldsObj(Tail(fields), jv)
                  IN  IF ~rest.ok THEN rest
                      ELSE Ok(Merge((f.rust :> r.val), rest.val))

\* a struct body read from a JSON array: fields by position (visit_seq);
\* a body with a flattened field only reads maps
DeFieldsArr(fields, a) ==
    IF fields = <<>> THEN (IF a = <<>> THEN Ok(EmptyFcn) ELSE Err("trailing characters"))
    ELSE LET f == Head(fields)
         IN  IF f.flatten THEN Err("invalid type")
             ELSE IF a = <<>> /\ "default" \notin DOMAIN f THEN Err("invalid length")
             ELSE LET r == IF a = <<>> THEN Ok(f.default) ELSE De(f.ty, Head(a))
                  IN  IF ~r.ok THEN r
                      ELSE LET rest == DeFieldsArr(Tail(fields),
                                                   IF a = <<>> THEN a ELSE Tail(a))
                           IN  IF ~rest.ok THEN rest
                               ELSE Ok(Merge((f.rust :> r.val), rest.val))

DeVec(t, a) ==
    IF a = <<>> THEN Ok(<<>>)
    ELSE LET r == De(t, Head(a))
         IN  IF ~r.ok THEN r
             ELSE LET rest == DeVec(t, Tail(a))
                  IN  IF ~rest.ok THEN rest ELSE Ok(<<r.val>> \o rest.val)

\* the variants of an untagged enum are tried in order; the first that
\* reads the value wins
DeUntagged(variants, jv) ==
    IF variants = <<>> THEN Err("data did not match any variant of untagged enum")
    ELSE LET r == De(Head(variants).ty, jv)
         IN  IF r.ok THEN Ok(<<Head(variants).rust, r.val>>)
             ELSE DeUntagged(Tail(variants), jv)

De(ty, jv) ==
    CASE ty.k = "string" -> IF jv.j = "str" THEN Ok(jv.s) ELSE Err("invalid type")
      [] ty.k = "bool" -> IF jv.j = "bool" THEN Ok(jv.b) ELSE Err("invalid type")
      [] ty.k = "u64" ->
            IF jv.j # "num" THEN Err("invalid type")
            ELSE IF jv.n < 0 THEN Err("invalid value")
            ELSE Ok(jv.n)
      [] ty.k = "path" -> IF jv.j = "str" THEN Ok(jv.s) ELSE Err("invalid type")
      [] ty.k = "u32" ->
            IF jv.j # "num" THEN Err("invalid type")
            ELSE IF jv.n < 0 THEN Err("invalid value")
            ELSE Ok(jv.n)
      [] ty.k \in {"i64", "f64"} -> IF jv.j = "num" THEN Ok(jv.n) ELSE Err("invalid type")
      [] ty.k = "value" -> Ok(jv)
      [] ty.k = "untagged" -> DeUntagged(ty.variants, jv)
      [] ty.k = "option" ->
            IF jv.j = "null" THEN Ok(None)
            ELSE LET r == De(ty.of, jv) IN IF r.ok THEN Ok(Some(r.val)) ELSE r
      [] ty.k = "vec" -> IF jv.j = "arr" THEN DeVec(ty.of, jv.a) ELSE Err("invalid type")
      [] ty.k = "newtype" -> De(ty.of, jv)
      [] ty.k = "unit" -> IF jv.j = "null" THEN Ok(UnitValue(ty.name)) ELSE Err("invalid type")
      [] ty.k = "unit_enum" ->
            IF jv.j = "str"
            THEN IF jv.s \in WireNames(ty.variants)
                 THEN Ok(ByWire(ty.variants, jv.s).rust)
                 ELSE Err("unknown variant")
            ELSE IF jv.j = "obj"
            THEN IF Cardinality(DOMAIN jv.o) # 1 THEN Err("invalid value")
                 ELSE LET w == CHOOSE x \in DOMAIN jv.o : TRUE
                      IN  IF w \notin WireNames(ty.variants) THEN Err("unknown variant")
                          ELSE IF jv.o[w].j # "null" THEN Err("invalid type")
                          ELSE Ok(ByWire(ty.variants, w).rust)
            ELSE Err("invalid type")
      [] ty.k = "struct" ->
            IF jv.j = "obj" THEN DeFieldsObj(ty.fields, jv)
            ELSE IF jv.j = "arr" THEN DeFieldsArr(ty.fields, jv.a)
            ELSE Err("invalid type")
      [] ty.k = "tagged_enum" ->
            IF jv.j = "obj"
            THEN IF ty.tag \notin DOMAIN jv.o THEN Err("missing field")
                 ELSE IF jv.o[ty.tag].j # "str" THEN Err("invalid type")
                 ELSE IF jv.o[ty.tag].s \notin WireNames(ty.variants) THEN Err("unknown variant")
                 ELSE LET var == ByWire(ty.variants, jv.o[ty.tag].s)
                          r == DeFieldsObj(var.fields, jv)
                      IN  IF r.ok THEN Ok(<<var.rust, r.val>>) ELSE r
            ELSE IF jv.j = "arr"
            THEN IF jv.a = <<>> THEN Err("invalid length")
                 ELSE IF Head(jv.a).j # "str" THEN Err("invalid type")
                 ELSE IF Head(jv.a).s \notin WireNames(ty.variants) THEN Err("unknown variant")
                 ELSE LET var == ByWire(ty.variants, Head(jv.a).s)
                          r == DeFieldsArr(var.fields, Tail(jv.a))
                      IN  IF r.ok THEN Ok(<<var.rust, r.val>>) ELSE r
            ELSE Err("invalid type")

(***************************************************************************)
(* The payload types of rust/schema.rs                                     *)
(***************************************************************************)

T_InitializeParams == T_Unit("InitializeParams")

T_InitializeResponse ==
    T_Struct("InitializeResponse", "", <<F("is_authenticated", "isAuthenticated", T_Bool)>>)

T_AuthenticateParams == T_Unit("AuthenticateParams")

T_AuthenticateResponse == T_Unit("AuthenticateResponse")

T_UserMessageChunk ==
    T_TaggedEnum("UserMessageChunk", "type",
        <<VS("Text", "text", <<F("chunk", "chunk", T_String)>>),
          VS("Path", "path", <<F("path", "path", T_PathBuf)>>)>>)

T_UserMessage ==
    T_Struct("UserMessage", "", <<F("chunks", "chunks", T_Vec(T_UserMessageChunk))>>)

T_AssistantMessageChunk ==
    T_TaggedEnum("AssistantMessageChunk", "type",
        <<VS("Text", "text", <<F("chunk", "chunk", T_String)>>),
          VS("Thought", "thought", <<F("chunk", "chunk", T_String)>>)>>)

T_SendUserMessageParams ==
    T_Struct("SendUserMessageParams", "", <<F("message", "message", T_UserMessage)>>)

T_SendUserMessageResponse == T_Unit("SendUserMessageResponse")

T_StreamAssistantMessageChunkParams ==
    T_Struct("StreamAssistantMessageChunkParams", "",
        <<F("chunk", "chunk", T_AssistantMessageChunk)>>)

T_StreamAssistantMessageChunkResponse == T_Unit("StreamAssistantMessageChunkResponse")

T_Icon ==
    T_UnitEnum("Icon",
        <<V("FileSearch", "fileSearch"), V("Folder", "folder"), V("Globe", "globe"),
          V("Hammer", "hammer"), V("LightBulb", "lightBulb"), V("Pencil", "pencil"),
          V("Regex", "regex"), V("Terminal", "terminal")>>)

T_ToolCallConfirmation ==
    T_TaggedEnum("ToolCallConfirmation", "type",
        <<VS("Edit", "edit",
             <<FSkip("description", "description", T_Option(T_String))>>),
          VS("Execute", "execute",
             <<F("command", "command", T_String),
               F("root_command", "rootCommand", T_String),
               FSkip("description", "description", T_Option(T_String))>>),
          VS("Mcp", "mcp",
             <<F("server_name", "serverName", T_String),
               F("tool_name", "toolName", T_String),
               F("tool_display_name", "toolDisplayName", T_String),
               FSkip("description", "description", T_Option(T_String))>>),
          VS("Fetch", "fetch",
             <<F("urls", "urls", T_Vec(T_String)),
               FSkip("description", "description", T_Option(T_String))>>),
          VS("Other", "other", <<F("description", "description", T_String)>>)>>)

T_ToolCallId == T_Newtype("ToolCallId", T_U64)

T_ToolCallConfirmationOutcome ==
    T_UnitEnum("ToolCallConfirmationOutcome",
        <<V("Allow", "allow"), V("AlwaysAllow", "alwaysAllow"),
          V("AlwaysAllowMcpServer", "alwaysAllowMcpServer"),
          V("AlwaysAllowTool", "alwaysAllowTool"),
          V("Reject", "reject"), V("Cancel", "cancel")>>)

T_Diff ==
    T_Struct("Diff", "",
        <<F("path", "path", T_PathBuf),
          F("old_text", "oldText", T_Option(T_String)),
          F("new_text", "newText", T_String)>>)

T_ToolCallContent ==
    T_TaggedEnum("ToolCallContent", "type",
        <<VS("Markdown", "markdown", <<F("markdown", "markdown", T_String)>>),
          VS("Diff", "diff", <<FFlat("diff", T_Diff)>>)>>)

T_RequestToolCallConfirmationParams ==
    T_Struct("RequestToolCallConfirmationParams", "",
        <<F("label", "label", T_String),
          F("icon", "icon", T_Icon),
          F("confirmation", "confirmation", T_ToolCallConfirmation),
          FSkip("content", "content", T_Option(T_ToolCallContent))>>)

T_RequestToolCallConfirmationResponse ==
    T_Struct("RequestToolCallConfirmationResponse", "type",
        <<F("id", "id", T_ToolCallId),
          F("outcome", "outcome", T_ToolCallConfirmationOutcome)>>)

T_PushToolCallParams ==
    T_Struct("PushToolCallParams", "",
        <<F("label", "label", T_String),
          F("icon", "icon", T_Icon),
          FSkip("content", "content", T_Option(T_ToolCallContent))>>)

T_PushToolCallResponse ==
    T_Struct("PushToolCallResponse", "type", <<F("id", "id", T_ToolCallId)>>)

T_ToolCallStatus ==
    T_UnitEnum("ToolCallStatus",
        <<V("Running", "running"), V("Finished", "finished"), V("Error", "error")>>)

T_UpdateToolCallParams ==
    T_Struct("UpdateToolCallParams", "",
        <<F("tool_call_id", "toolCallId", T_ToolCallId),
          F("status", "status", T_ToolCallStatus),
          F("content", "content", T_Option(T_ToolCallContent))>>)

T_UpdateToolCallResponse == T_Unit("UpdateToolCallResponse")

T_CancelSendMessageParams == T_Unit("CancelSendMessageParams")

T_CancelSendMessageResponse == T_Unit("CancelSendMessageResponse")

\* the declaration a type name of the catalog refers to
TypeOf(name) ==
    CASE name = "InitializeParams" -> T_InitializeParams
      [] name = "InitializeResponse" -> T_InitializeResponse
      [] name = "AuthenticateParams" -> T_AuthenticateParams
      [] name = "AuthenticateResponse" -> T_AuthenticateResponse
      [] name = "SendUserMessageParams" -> T_SendUserMessageParams
      [] name = "SendUserMessageResponse" -> T_SendUserMessageResponse
      [] name = "CancelSendMessageParams" -> T_CancelSendMessageParams
      [] name = "CancelSendMessageResponse" -> T_CancelSendMessageResponse
      [] name = "StreamAssistantMessageChunkParams" -> T_StreamAssistantMessageChunkParams
      [] name = "StreamAssistantMessageChunkResponse" -> T_StreamAssistantMessageChunkResponse
      [] name = "RequestToolCallConfirmationParams" -> T_RequestToolCallConfirmationParams
      [] name = "RequestToolCallConfirmationResponse" -> T_RequestToolCallConfirmationResponse
      [] name = "PushToolCallParams" -> T_PushToolCallParams
      [] name = "PushToolCallResponse" -> T_PushToolCallResponse
      [] name = "UpdateToolCallParams" -> T_UpdateToolCallParams
      [] name = "UpdateToolCallResponse" -> T_UpdateToolCallResponse

(***************************************************************************)
(* The types of rust/content.rs                                            *)
(***************************************************************************)

T_Role == T_UnitEnum("Role", <<V("Assistant", "assistant"), V("User", "user")>>)

T_Annotations ==
    T_Struct("Annotations", "",
        <<FDefault("audience", "audience", T_Option(T_Vec(T_Role)), None),
          FDefault("last_modified", "lastModified", T_Option(T_String), None),
          FDefault("priority", "priority", T_Option(T_F64), None)>>)

T_TextContent ==
    T_Struct("TextContent", "",
        <<FDefault("annotations", "annotations", T_Option(T_Annotations), None),
          F("text", "text", T_String)>>)

T_ImageContent ==
    T_Struct("ImageContent", "",
        <<FDefault("annotations", "annotations", T_Option(T_Annotations), None),
          F("data", "data", T_String),
          F("mime_type", "mimeType", T_String),
          FDefault("uri", "uri", T_Option(T_String), None)>>)

T_AudioContent ==
    T_Struct("AudioContent", "",
        <<FDefault("annotations", "annotations", T_Option(T_Annotations), None),
          F("data", "data", T_String),
          F("mime_type", "mimeType", T_String)>>)

T_TextResourceContents ==
    T_Struct("TextResourceContents", "",
        <<FDefault("mime_type", "mimeType", T_Option(T_String), None),
          F("text", "text", T_String),
          F("uri", "uri", T_String)>>)

\* mutant: the payload member is named as in ImageContent
T_BlobResourceContents_DataField ==
    T_Struct("BlobResourceContents", "",
        <<F("blob", "data", T_String),
          FDefault("mime_type", "mimeType", T_Option(T_String), None),
          F("uri", "uri", T_String)>>)

T_BlobResourceContents ==
    T_Struct("BlobResourceContents", "",
        <<F("blob", "blob", T_String),
          FDefault("mime_type", "mimeType", T_Option(T_String), None),
          F("uri", "uri", T_String)>>)

\* mutant: the variants are declared in the other order
T_EmbeddedResourceResource_BlobFirst ==
    T_Untagged("EmbeddedResourceResource",
        <<VT("BlobResourceContents", T_BlobResourceContents),
          VT("TextResourceContents", T_TextResourceContents)>>)

T_EmbeddedResourceResource ==
    T_Untagged("EmbeddedResourceResource",
        <<VT("TextResourceContents", T_TextResourceContents),
          VT("BlobResourceContents", T_BlobResourceContents)>>)

T_EmbeddedResource ==
    T_Struct("EmbeddedResource", "",
        <<FDefault("annotations", "annotations", T_Option(T_Annotations), None),
          F("resource", "resource", T_EmbeddedResourceResource)>>)

T_ResourceLink ==
    T_Struct("ResourceLink", "",
        <<FDefault("annotations", "annotations", T_Option(T_Annotations), None),
          FDefault("description", "description", T_Option(T_String), None),
          FDefault("mime_type", "mimeType", T_Option(T_String), None),
          F("name", "name", T_String),
          FDefault("size", "size", T_Option(T_I64), None),
          FDefault("title", "title", T_Option(T_String), None),
          F("uri", "uri", T_String)>>)

\* a newtype variant of an internally tagged enum is written as the members
\* of its inner struct next to the tag
T_ContentBlock ==
    T_TaggedEnum("ContentBlock", "type",
        <<VS("Text", "text", T_TextContent.fields),
          VS("Image", "image", T_ImageContent.fields),
          VS("Audio", "audio", T_AudioContent.fields),
          VS("ResourceLink", "resource_link", T_ResourceLink.fields),
          VS("Resource", "resource", T_EmbeddedResource.fields)>>)

(***************************************************************************)
(* The types of rust/tool_call.rs.  ToolCallId, ToolCallStatus,            *)
(* ToolCallContent and Diff are declared there a second time, apart from   *)
(* the ones of rust/schema.rs; they carry the module's name here.          *)
(***************************************************************************)

T_tool_call_ToolCallId == T_Newtype("ToolCallId", T_String)

T_ToolKind ==
    T_UnitEnum("ToolKind",
        <<V("Read", "read"), V("Edit", "edit"), V("Delete", "delete"), V("Move", "move"),
          V("Search", "search"), V("Execute", "execute"), V("Think", "think"),
          V("Fetch", "fetch"), V("Other", "other")>>)

T_tool_call_ToolCallStatus ==
    T_UnitEnum("ToolCallStatus",
        <<V("Pending", "pending"), V("InProgress", "in_progress"),
          V("Completed", "completed"), V("Failed", "failed")>>)

T_tool_call_Diff ==
    T_Struct("Diff", "",
        <<F("path", "path", T_PathBuf),
          F("old_text", "oldText", T_Option(T_String)),
          F("new_text", "newText", T_String)>>)

T_tool_call_ToolCallContent ==
    T_TaggedEnum("ToolCallContent", "type",
        <<VS("Content", "content", <<F("content", "content", T_ContentBlock)>>),
          VS("Diff", "diff", <<FFlat("diff", T_tool_call_Diff)>>)>>)

T_ToolCallLocation ==
    T_Struct("ToolCallLocation", "type",
        <<F("path", "path", T_PathBuf),
          FDefault("line", "line", T_Option(T_U32), None)>>)

\* mutant: status lacks #[serde(default)], so a tool call has to state it
T_ToolCall_StatusRequired ==
    T_Struct("ToolCall", "",
        <<F("id", "toolCallId", T_tool_call_ToolCallId),
          F("title", "title", T_String),
          FDefault("kind", "kind", T_ToolKind, "Other"),
          F("status", "status", T_tool_call_ToolCallStatus),
          FDefault("content", "content", T_Vec(T_tool_call_ToolCallContent), <<>>),
          FDefault("locations", "locations", T_Vec(T_ToolCallLocation), <<>>),
          FDefault("raw_input", "rawInput", T_Option(T_Value), None),
          FDefault("raw_output", "rawOutput", T_Option(T_Value), None)>>)

T_ToolCall ==
    T_Struct("ToolCall", "",
        <<F("id", "toolCallId", T_tool_call_ToolCallId),
          F("title", "title", T_String),
          FDefault("kind", "kind", T_ToolKind, "Other"),
          FDefault("status", "status", T_tool_call_ToolCallStatus, "Pending"),
          FDefault("content", "content", T_Vec(T_tool_call_ToolCallContent), <<>>),
          FDefault("locations", "locations", T_Vec(T_ToolCallLocation), <<>>),
          FDefault("raw_input", "rawInput", T_Option(T_Value), None),
          FDefault("raw_output", "rawOutput", T_Option(T_Value), None)>>)

\* mutant: the struct lacks rename_all = "camelCase", so raw_input and
\* raw_output keep their rust names on the wire
T_ToolCallUpdateFields_NoRename ==
    T_Struct("ToolCallUpdateFields", "",
        <<FDefault("kind", "kind", T_Option(T_ToolKind), None),
          FDefault("status", "status", T_Option(T_tool_call_ToolCallStatus), None),
          FDefault("title", "title", T_Option(T_String), None),
          FDefault("content", "content", T_Option(T_Vec(T_tool_call_ToolCallContent)), None),
          FDefault("locations", "locations", T_Option(T_Vec(T_ToolCallLocation)), None),
          FDefault("raw_input", "raw_input", T_Option(T_Value), None),
          FDefault("raw_output", "raw_output", T_Option(T_Value), None)>>)

T_ToolCallUpdateFields ==
    T_Struct("ToolCallUpdateFields", "",
        <<FDefault("kind", "kind", T_Option(T_ToolKind), None),
          FDefault("status", "status", T_Option(T_tool_call_ToolCallStatus), None),
          FDefault("title", "title", T_Option(T_String), None),
          FDefault("content", "content", T_Option(T_Vec(T_tool_call_ToolCallContent)), None),
          FDefault("locations", "locations", T_Option(T_Vec(T_ToolCallLocation)), None),
          FDefault("raw_input", "rawInput", T_Option(T_Value), None),
          FDefault("raw_output", "rawOutput", T_Option(T_Value), None)>>)

T_ToolCallUpdate ==
    T_Struct("ToolCallUpdate", "",
        <<F("id", "toolCallId", T_tool_call_ToolCallId),
          FFlat("fields", T_ToolCallUpdateFields)>>)

(***************************************************************************)
(* The types of rust/client.rs                                             *)
(***************************************************************************)

\* crate::SessionId: a string newtype written as the bare string
T_SessionId == T_Newtype("SessionId", T_String)

T_ToolCallRef ==
    T_Untagged("ToolCallRef",
        <<VT("Id", T_tool_call_ToolCallId), VT("Inline", T_ToolCall)>>)

T_PermissionOptionId == T_Newtype("PermissionOptionId", T_String)

T_PermissionOptionKind ==
    T_UnitEnum("PermissionOptionKind",
        <<V("AllowOnce", "allow_once"), V("AllowAlways", "allow_always"),
          V("RejectOnce", "reject_once"), V("RejectAlways", "reject_always")>>)

T_PermissionOption ==
    T_Struct("PermissionOption", "",
        <<F("id", "optionId", T_PermissionOptionId),
          F("name", "name", T_String),
          F("kind", "kind", T_PermissionOptionKind)>>)

T_RequestPermissionRequest ==
    T_Struct("RequestPermissionRequest", "",
        <<F("session_id", "sessionId", T_SessionId),
          F("tool_call", "toolCall", T_ToolCallRef),
          F("options", "options", T_Vec(T_PermissionOption))>>)

\* mutant: Selected lacks its own rename_all = "camelCase", so its field
\* keeps the rust name on the wire
T_RequestPermissionOutcome_SnakeField ==
    T_TaggedEnum("RequestPermissionOutcome", "outcome",
        <<VS("Cancelled", "cancelled", <<>>),
          VS("Selected", "selected",
             <<F("option_id", "option_id", T_PermissionOptionId)>>)>>)

\* a unit variant of an internally tagged enum is the tag alone
T_RequestPermissionOutcome ==
    T_TaggedEnum("RequestPermissionOutcome", "outcome",
        <<VS("Cancelled", "cancelled", <<>>),
          VS("Selected", "selected",
             <<F("option_id", "optionId", T_PermissionOptionId)>>)>>)

T_RequestPermissionResponse ==
    T_Struct("RequestPermissionResponse", "",
        <<F("outcome", "outcome", T_RequestPermissionOutcome)>>)

\* mutant: line lacks skip_serializing_if
T_ReadTextFileRequest_LineNotSkipped ==
    T_Struct("ReadTextFileRequest", "",
        <<F("session_id", "sessionId", T_SessionId),
          F("path", "path", T_PathBuf),
          F("line", "line", T_Option(T_U32)),
          FDefault("limit", "limit", T_Option(T_U32), None)>>)

T_ReadTextFileRequest ==
    T_Struct("ReadTextFileRequest", "",
        <<F("session_id", "sessionId", T_SessionId),
          F("path", "path", T_PathBuf),
          FDefault("line", "line", T_Option(T_U32), None),
          FDefault("limit", "limit", T_Option(T_U32), None)>>)

(***************************************************************************)
(* The two acp_peer! invocations: one entry per method, in declaration     *)
(* order.                                                                  *)
(***************************************************************************)

Entry(m, s, rq, pp, rs, rp) ==
    [request_method |-> m, request_method_string |-> s, request_name |-> rq,
     param_payload |-> pp, response_name |-> rs, response_payload |-> rp]

ClientCatalog ==
    <<Entry("stream_assistant_message_chunk", "streamAssistantMessageChunk",
            "StreamAssistantMessageChunkParams", TRUE,
            "StreamAssistantMessageChunkResponse", FALSE),
      Entry("request_tool_call_confirmation", "requestToolCallConfirmation",
            "RequestToolCallConfirmationParams", TRUE,
            "RequestToolCallConfirmationResponse", TRUE),
      Entry("push_tool_call", "pushToolCall",
            "PushToolCallParams", TRUE, "PushToolCallResponse", TRUE),
      Entry("update_tool_call", "updateToolCall",
            "UpdateToolCallParams", TRUE, "UpdateToolCallResponse", FALSE)>>

AgentCatalog ==
    <<Entry("initialize", "initialize",
            "InitializeParams", FALSE, "InitializeResponse", TRUE),
      Entry("authenticate", "authenticate",
            "AuthenticateParams", FALSE, "AuthenticateResponse", FALSE),
      Entry("send_user_message", "sendUserMessage",
            "SendUserMessageParams", TRUE, "SendUserMessageResponse", FALSE),
      Entry("cancel_send_message", "cancelSendMessage",
            "CancelSendMessageParams", FALSE, "CancelSendMessageResponse", FALSE)>>

Roles == {"Client", "Agent"}

Catalog(role) == IF role = "Client" THEN ClientCatalog ELSE AgentCatalog

Entries(role) == {Catalog(role)[i] : i \in 1..Len(Catalog(role))}

(***************************************************************************)
(* Items generated by acp_peer! for one role.  An envelope value           *)
(* ($request_enum_name, $response_enum_name) is <<variant name, payload>>; *)
(* the payload of a payload-less variant is the unit struct itself.        *)
(***************************************************************************)

\* the value of type ()
Unit == UnitValue("()")

\* ASCII case folding of the method strings the inputs hold
FoldCase(m) ==
    CASE m \in {"Initialize", "INITIALIZE"} -> "initialize"
      [] m \in {"pushToolCall", "PushToolCall"} -> "pushtoolcall"
      [] m = "sendUserMessage" -> "sendusermessage"
      [] OTHER -> m

\* mutant: the method string is compared ignoring case
MatchArm_IgnoreCase(role, method) ==
    LET hits == {i \in 1..Len(Catalog(role)) :
                    FoldCase(Catalog(role)[i].request_method_string) = FoldCase(method)}
    IN  IF hits = {} THEN 0 ELSE CHOOSE i \in hits : \A h \in hits : i <= h

\* the first arm of `match method { $($request_method_string => ...)* _ => ... }`
\* whose string pattern equals `method`; 0 when only the wildcard arm matches
MatchArm(role, method) ==
    LET hits == {i \in 1..Len(Catalog(role)) : Catalog(role)[i].request_method_string = method}
    IN  IF hits = {} THEN 0 ELSE CHOOSE i \in hits : \A h \in hits : i <= h

\* the arm of `match params { $($request_enum_name::$request_name(params) => ...)* }`
VariantArm(role, variant) ==
    Catalog(role)[CHOOSE i \in 1..Len(Catalog(role)) : Catalog(role)[i].request_name = variant]

\* the entry whose $response_name is the variant of a response envelope
ResponseArm(role, variant) ==
    Catalog(role)[CHOOSE i \in 1..Len(Catalog(role)) : Catalog(role)[i].response_name = variant]

\* mutant: the envelope enum lacks #[serde(untagged)] and is written
\* externally tagged
SerializeAny_Tagged(any) ==
    JObj((VariantOf(any) :> Ser(TypeOf(VariantOf(any)), PayloadOf(any))))

\* derived Serialize of the #[serde(untagged)] envelope enums: the inner value alone
SerializeAny(any) == Ser(TypeOf(VariantOf(any)), PayloadOf(any))

\* mutant: the parse diagnostic is not attached to the ParseError
request_from_method_and_params_NoDetail(e, params) ==
    IF ~e.param_payload
    THEN Ok(<<e.request_name, UnitValue(e.request_name)>>)
    ELSE LET r == De(TypeOf(e.request_name), params)
         IN  IF r.ok THEN Ok(<<e.request_name, r.val>>)
             ELSE Err(into_error("ParseError"))

\* mutant: the payload is parsed also when the entry declares none
request_from_method_and_params_AlwaysParses(e, params) ==
    LET r == De(TypeOf(e.request_name), params)
    IN  IF r.ok THEN Ok(<<e.request_name, r.val>>)
        ELSE Err(into_error_with_details("ParseError", r.err))

\* mutant: the request types are read as with deny_unknown_fields
request_from_method_and_params_DenyUnknown(e, params) ==
    IF ~e.param_payload
    THEN Ok(<<e.request_name, UnitValue(e.request_name)>>)
    ELSE LET ty == TypeOf(e.request_name)
             r == De(ty, params)
         IN  IF ty.k = "struct" /\ params.j = "obj"
                /\ ~(DOMAIN params.o \subseteq WireNames(ty.fields))
             THEN Err(into_error_with_details("ParseError", "unknown field"))
             ELSE IF r.ok THEN Ok(<<e.request_name, r.val>>)
             ELSE Err(into_error_with_details("ParseError", r.err))

request_from_method_and_params(e, params) ==
    IF ~e.param_payload
    THEN Ok(<<e.request_name, UnitValue(e.request_name)>>)
    ELSE LET r == De(TypeOf(e.request_name), params)
         IN  IF r.ok THEN Ok(<<e.request_name, r.val>>)
             ELSE Err(into_error_with_details("ParseError", r.err))

\* mutant: the request flag decides whether the result is parsed
response_from_method_and_result_arm_RequestFlag(e, result) ==
    IF ~e.param_payload
    THEN Ok(<<e.response_name, UnitValue(e.response_name)>>)
    ELSE LET r == De(TypeOf(e.response_name), result)
         IN  IF r.ok THEN Ok(<<e.response_name, r.val>>)
             ELSE Err(into_error_with_details("ParseError", r.err))

response_from_method_and_result_arm(e, result) ==
    IF ~e.response_payload
    THEN Ok(<<e.response_name, UnitValue(e.response_name)>>)
    ELSE LET r == De(TypeOf(e.response_name), result)
         IN  IF r.ok THEN Ok(<<e.response_name, r.val>>)
             ELSE Err(into_error_with_details("ParseError", r.err))

\* mutant: an unknown method string falls into the first arm instead of the
\* wildcard arm
from_method_and_params_FallThrough(role, method, params) ==
    LET i == MatchArm(role, method)
    IN  request_from_method_and_params(Catalog(role)[IF i = 0 THEN 1 ELSE i], params)

\* mutant: the decoder keeps a flag that a message failed and refuses
\* every message after it
from_method_and_params_Poisoned(role, method, params) ==
    LET i == MatchArm(role, method)
    IN  IF \E d \in DOMAIN calls :
               calls[d].st \in {"rejected", "done"} /\ ~calls[d].result.ok
        THEN Err(into_error("InternalError"))
        ELSE IF i = 0 THEN Err(into_error("MethodNotFound"))
        ELSE request_from_method_and_params(Catalog(role)[i], params)

from_method_and_params(role, method, params) ==
    LET i == MatchArm(role, method)
    IN  IF i = 0 THEN Err(into_error("MethodNotFound"))
        ELSE request_from_method_and_params(Catalog(role)[i], params)

response_from_method_and_result(role, method, params) ==
    LET i == MatchArm(role, method)
    IN  IF i = 0 THEN Err(into_error("MethodNotFound"))
        ELSE response_from_method_and_result_arm(Catalog(role)[i], params)

\* mutant: the handler method's identifier is given instead of the wire string
method_name_HandlerIdent(role, req) == VariantArm(role, VariantOf(req)).request_method

method_name(role, req) == VariantArm(role, VariantOf(req)).request_method_string

\* mutant: the two payload flags of a row are written the other way round
MethodRow_SwappedFlags(e) ==
    [name |-> e.request_method_string, request_type |-> e.request_name,
     param_payload |-> e.response_payload, response_type |-> e.response_name,
     response_payload |-> e.param_payload]

\* $method_map_name: CLIENT_METHODS / AGENT_METHODS
MethodRow(e) ==
    [name |-> e.request_method_string, request_type |-> e.request_name,
     param_payload |-> e.param_payload, response_type |-> e.response_name,
     response_payload |-> e.response_payload]

METHODS(role) == [i \in 1..Len(Catalog(role)) |-> MethodRow(Catalog(role)[i])]

\* impl $request_trait_name for $request_name
req_into_any(e, self) ==
    IF e.param_payload THEN <<e.request_name, self>>
    ELSE <<e.request_name, UnitValue(e.request_name)>>

into_any(role, rname, self) == req_into_any(VariantArm(role, rname), self)

\* mutant: a payload-less response is accepted whatever its variant
resp_from_any_AnyMarker(e, any) ==
    IF ~e.response_payload /\ ~ResponseArm(IF e \in Entries("Client") THEN "Client" ELSE "Agent",
                                          VariantOf(any)).response_payload
    THEN Ok(Unit)
    ELSE IF VariantOf(any) = e.response_name
    THEN Ok(IF e.response_payload THEN PayloadOf(any) ELSE Unit)
    ELSE Err(into_error_with_details("InternalError", "Unexpected Response"))

resp_from_any(e, any) ==
    IF VariantOf(any) = e.response_name
    THEN Ok(IF e.response_payload THEN PayloadOf(any) ELSE Unit)
    ELSE Err(into_error_with_details("InternalError", "Unexpected Response"))

response_from_any(role, rname, any) == resp_from_any(VariantArm(role, rname), any)

\* mutant: every request falls into the first arm of the match
HandlerOf_FirstArm(role, req) == Catalog(role)[1].request_method

\* the handler method `call` selects for a request, and the argument it passes
HandlerOf(role, req) == VariantArm(role, VariantOf(req)).request_method

HandlerArg(role, req) ==
    IF VariantArm(role, VariantOf(req)).param_payload THEN Some(PayloadOf(req)) ELSE None

\* mutant: the response name is kept in a slot shared by the calls in
\* flight, so a call may wrap its handler's value as the response of
\* another call that is still awaiting its handler
handler_trait_call_req_SharedSlot(e, outcome) ==
    LET others == {d \in DOMAIN calls :
                      calls[d].st = "awaiting" /\ VariantOf(calls[d].req) # e.request_name}
        other == CHOOSE d \in others : TRUE
        name == IF others = {} THEN e.response_name
                ELSE VariantArm(calls[other].role, VariantOf(calls[other].req)).response_name
    IN  IF ~outcome.ok
        THEN Err(into_error_with_details("InternalError", outcome.err))
        ELSE Ok(<<name, IF e.response_payload THEN outcome.val ELSE UnitValue(name)>>)

\* mutant: the handler's error is passed on under a code of its own
handler_trait_call_req_OwnCode(e, outcome) ==
    IF ~outcome.ok
    THEN Err([code |-> "HandlerError", detail |-> Some(outcome.err)])
    ELSE Ok(<<e.response_name, IF e.response_payload THEN outcome.val
                                ELSE UnitValue(e.response_name)>>)

\* mutant: the arm for a payload-less response is used for every entry
handler_trait_call_req_DropsValue(e, outcome) ==
    IF ~outcome.ok
    THEN Err(into_error_with_details("InternalError", outcome.err))
    ELSE Ok(<<e.response_name, UnitValue(e.response_name)>>)

\* mutant: the handler's message is not attached to the error
handler_trait_call_req_NoDetail(e, outcome) ==
    IF ~outcome.ok
    THEN Err(into_error("InternalError"))
    ELSE Ok(<<e.response_name, IF e.response_payload THEN outcome.val
                                ELSE UnitValue(e.response_name)>>)

\* what `call` returns once the handler's future has resolved to `outcome`
\* (Ok(value) or Err(message), the message being e.to_string())
handler_trait_call_req(e, outcome) ==
    IF ~outcome.ok
    THEN Err(into_error_with_details("InternalError", outcome.err))
    ELSE Ok(<<e.response_name, IF e.response_payload THEN outcome.val
                                ELSE UnitValue(e.response_name)>>)

(***************************************************************************)
(* Inputs: typed requests and responses, wire method strings, raw payloads *)
(***************************************************************************)

DiffNoOld == <<"Diff", [diff |-> [path |-> "/a", old_text |-> None, new_text |-> "n"]]>>

DiffWithOld == <<"Diff", [diff |-> [path |-> "/a", old_text |-> Some("o"), new_text |-> "n"]]>>

Markdown == <<"Markdown", [markdown |-> "m"]>>

\* the typed payloads a caller may hold, per request type
RequestPayloads(rname) ==
    CASE rname = "StreamAssistantMessageChunkParams" ->
            {[chunk |-> <<"Text", [chunk |-> "hi"]>>],
             [chunk |-> <<"Thought", [chunk |-> "hm"]>>]}
      [] rname = "RequestToolCallConfirmationParams" ->
            {[label |-> "test", icon |-> "FileSearch",
              confirmation |-> <<"Edit", [description |-> None]>>, content |-> None],
             [label |-> "run", icon |-> "Terminal",
              confirmation |-> <<"Execute", [command |-> "ls -l", root_command |-> "ls",
                                             description |-> Some("d")]>>,
              content |-> Some(DiffNoOld)],
             [label |-> "get", icon |-> "Globe",
              confirmation |-> <<"Fetch", [urls |-> <<"u1", "u2">>, description |-> None]>>,
              content |-> Some(Markdown)],
             [label |-> "mcp", icon |-> "Hammer",
              confirmation |-> <<"Mcp", [server_name |-> "s", tool_name |-> "t",
                                         tool_display_name |-> "T", description |-> None]>>,
              content |-> None],
             [label |-> "oth", icon |-> "LightBulb",
              confirmation |-> <<"Other", [description |-> "d"]>>, content |-> None]}
      [] rname = "PushToolCallParams" ->
            {[label |-> "test", icon |-> "FileSearch", content |-> None],
             [label |-> "edit", icon |-> "Pencil", content |-> Some(DiffWithOld)],
             [label |-> "note", icon |-> "Regex", content |-> Some(Markdown)]}
      [] rname = "UpdateToolCallParams" ->
            {[tool_call_id |-> 0, status |-> "Running", content |-> None],
             [tool_call_id |-> 1, status |-> "Finished", content |-> Some(DiffNoOld)],
             [tool_call_id |-> 1, status |-> "Error", content |-> Some(Markdown)]}
      [] rname = "SendUserMessageParams" ->
            {[message |-> [chunks |-> <<>>]],
             [message |-> [chunks |-> <<<<"Text", [chunk |-> "hi"]>>,
                                        <<"Path", [path |-> "/a"]>>>>]]}
      [] OTHER -> {UnitValue(rname)}

\* the values a handler may return, per response type
ResponsePayloads(sname) ==
    CASE sname = "InitializeResponse" ->
            {[is_authenticated |-> TRUE], [is_authenticated |-> FALSE]}
      [] sname = "RequestToolCallConfirmationResponse" ->
            {[id |-> 0, outcome |-> "Allow"], [id |-> 1, outcome |-> "Reject"]}
      [] sname = "PushToolCallResponse" -> {[id |-> 0], [id |-> 1]}
      [] OTHER -> {UnitValue(sname)}

\* every request envelope value of a role the inputs cover
AnyRequests(role) ==
    UNION {{<<e.request_name, p>> : p \in RequestPayloads(e.request_name)} : e \in Entries(role)}

\* every response envelope value of a role the inputs cover
AnyResponses(role) ==
    UNION {{<<e.response_name, p>> : p \in ResponsePayloads(e.response_name)} : e \in Entries(role)}

WireMethods(role) == {e.request_method_string : e \in Entries(role)}

\* method strings a transport may hand over: both roles' methods, the same
\* names in another case, a notification name and the empty string
MethodStrings ==
    WireMethods("Client") \cup WireMethods("Agent") \cup
    {"Initialize", "INITIALIZE", "pushtoolcall", "PushToolCall", "sendusermessage",
     "session/update", "initialize ", ""}

\* raw payloads no request or response type is written as
MalformedRaw ==
    {JNull, JEmptyObj, JStr("x"), JNum(0), JBool(TRUE), JArr(<<>>),
     \* a required field is missing
     JObj([label |-> JStr("test")]),
     JObj([toolCallId |-> JNum(0)]),
     JObj([message |-> JEmptyObj]),
     \* a field of the wrong type, an unknown variant, a negative id
     JObj([label |-> JNum(1), icon |-> JStr("fileSearch")]),
     JObj([label |-> JStr("test"), icon |-> JStr("FileSearch")]),
     JObj([chunk |-> JObj([type |-> JStr("image"), chunk |-> JStr("hi")])]),
     JObj([chunk |-> JObj([chunk |-> JStr("hi")])]),
     JObj([toolCallId |-> JNum(-1), status |-> JStr("running"), content |-> JNull]),
     JObj([isAuthenticated |-> JStr("yes")]),
     JObj([id |-> JStr("0")]),
     JObj([id |-> JNum(0), outcome |-> JStr("maybe")])}

\* raw payloads written another way than Serialize writes them
VariantRaw ==
    {\* an Option member left out, an unknown member added
     JObj([toolCallId |-> JNum(0), status |-> JStr("running")]),
     JObj([label |-> JStr("test"), icon |-> JStr("fileSearch"), extra |-> JNum(1)]),
     \* a struct written as the array of its fields
     JArr(<<JStr("test"), JStr("fileSearch"), JNull>>),
     JArr(<<JBool(TRUE)>>),
     \* the struct-level tag left out
     JObj([id |-> JNum(0)]),
     JObj([id |-> JNum(1), outcome |-> JStr("allow")])}

SerializedRequests == {SerializeAny(r) : r \in AnyRequests("Client") \cup AnyRequests("Agent")}

SerializedResponses == {SerializeAny(r) : r \in AnyResponses("Client") \cup AnyResponses("Agent")}

RawPayloads == MalformedRaw \cup VariantRaw \cup SerializedRequests \cup SerializedResponses

(***************************************************************************)
(* State machine.  Three specifications share the state: Spec runs the     *)
(* role dispatcher (`call`, suspended at the handler's future), SpecCodec  *)
(* applies the pure codec and correlation functions to drawn inputs, and   *)
(* SpecConn runs a connected client/agent pair.                            *)
(***************************************************************************)

\* dispatch calls that may be in flight at once
MaxCalls == 2

CallIds == 1..MaxCalls

IdleCall == [st |-> "idle"]

\* the requests handed to `call`: every variant of both roles, and two
\* payloads for the variants that stream text and push tool calls
CallPayloads(rname) ==
    CASE rname = "StreamAssistantMessageChunkParams" -> RequestPayloads(rname)
      [] rname = "RequestToolCallConfirmationParams" ->
            {q \in RequestPayloads(rname) : q.label = "test"}
      [] rname = "PushToolCallParams" ->
            {q \in RequestPayloads(rname) : q.label \in {"test", "edit"}}
      [] rname = "UpdateToolCallParams" ->
            {q \in RequestPayloads(rname) : q.tool_call_id = 0}
      [] rname = "SendUserMessageParams" ->
            {q \in RequestPayloads(rname) : q.message.chunks # <<>>}
      [] OTHER -> RequestPayloads(rname)

CallRequests(role) ==
    UNION {{<<e.request_name, p>> : p \in CallPayloads(e.request_name)} : e \in Entries(role)}

\* what a handler's future may resolve to: a value of the handler's return
\* type, or an error
HandlerOutcomes(e) ==
    {Ok(v) : v \in IF e.response_payload THEN ResponsePayloads(e.response_name) ELSE {Unit}}
    \cup {Err(m) : m \in {"boom", ""}}

Sides == {"client", "agent"}

Peer(s) == IF s = "client" THEN "agent" ELSE "client"

\* the role a side implements (TestClient: Client, TestAgent: Agent)
OwnRole(s) == IF s = "client" THEN "Client" ELSE "Agent"

\* the role whose requests a side issues
PeerRole(s) == OwnRole(Peer(s))

InitConn ==
    [pipe |-> [s \in Sides |-> <<>>],
     pending |-> [s \in Sides |-> <<>>],
     running |-> [s \in Sides |-> {}],
     handled |-> [s \in Sides |-> {}]]

\* the ids of the tool calls of a session
ToolCallIds == {"tc1", "tc2"}

\* no tool call has been announced yet
InitTracker ==
    [records |-> [id \in ToolCallIds |-> None], last |-> [kind |-> "none"]]

NoOp == [kind |-> "none"]

Init ==
    /\ op = NoOp
    /\ calls = [c \in CallIds |-> IdleCall]
    /\ conn = InitConn
    /\ tracker = InitTracker

----------------------------------------------------------------------------
(* pub trait $handler_trait_name { fn call(&self, params) } *)

\* `call` is entered: the match selects the arm of the request's variant and
\* the arm invokes its handler method; the call then awaits the handler
CallStart(c, role, req) ==
    /\ calls[c].st = "idle"
    /\ calls' = [calls EXCEPT ![c] =
                    [st |-> "awaiting", role |-> role, req |-> req,
                     invoked |-> <<[handler |-> HandlerOf(role, req),
                                    arg |-> HandlerArg(role, req)]>>]]
    /\ UNCHANGED <<op, conn, tracker>>

\* the handler's future resolves and `call` returns
HandlerReturn(c, outcome) ==
    /\ calls[c].st = "awaiting"
    /\ outcome \in HandlerOutcomes(VariantArm(calls[c].role, VariantOf(calls[c].req)))
    /\ calls' = [calls EXCEPT ![c] =
                    [st |-> "done", role |-> calls[c].role, req |-> calls[c].req,
                     invoked |-> calls[c].invoked, outcome |-> outcome,
                     result |-> handler_trait_call_req(
                                    VariantArm(calls[c].role, VariantOf(calls[c].req)), outcome)]]
    /\ UNCHANGED <<op, conn, tracker>>

AllOutcomes == UNION {HandlerOutcomes(e) : e \in Entries("Client") \cup Entries("Agent")}

Next ==
    \/ \E c \in CallIds, role \in Roles : \E req \in CallRequests(role) : CallStart(c, role, req)
    \/ \E c \in CallIds : \E outcome \in AllOutcomes : HandlerReturn(c, outcome)

Spec == Init /\ [][Next]_vars

----------------------------------------------------------------------------
(* impl AnyRequest for $request_enum_name, method_name, impl $request_trait_name *)

\* the inputs the codec and correlation functions are applied to
InitCodec ==
    /\ \/ op \in {[kind |-> k, st |-> "input", role |-> role, method |-> method, raw |-> raw] :
                    k \in {"decode_request", "decode_response"}, role \in Roles,
                    method \in MethodStrings, raw \in RawPayloads}
       \/ \E role \in Roles :
             op \in {[kind |-> "round_trip", st |-> "input", role |-> role, req |-> req] :
                        req \in AnyRequests(role)}
       \/ \E role \in Roles :
             op \in {[kind |-> "response_from_any", st |-> "input", role |-> role,
                      rname |-> e.request_name, any |-> any] :
                        e \in Entries(role), any \in AnyResponses(role)}
    /\ calls = [c \in CallIds |-> IdleCall]
    /\ conn = InitConn
    /\ tracker = InitTracker

DecodeRequest ==
    /\ op.kind = "decode_request" /\ op.st = "input"
    /\ op' = [kind |-> op.kind, st |-> "done", role |-> op.role,
              method |-> op.method, raw |-> op.raw,
              result |-> from_method_and_params(op.role, op.method, op.raw)]
    /\ UNCHANGED <<calls, conn, tracker>>

DecodeResponse ==
    /\ op.kind = "decode_response" /\ op.st = "input"
    /\ op' = [kind |-> op.kind, st |-> "done", role |-> op.role,
              method |-> op.method, raw |-> op.raw,
              result |-> response_from_method_and_result(op.role, op.method, op.raw)]
    /\ UNCHANGED <<calls, conn, tracker>>

\* a caller serializes a request envelope, sends it under method_name, and
\* the receiver decodes what arrived
RoundTrip ==
    /\ op.kind = "round_trip" /\ op.st = "input"
    /\ op' = [kind |-> op.kind, st |-> "done", role |-> op.role, req |-> op.req,
              method |-> method_name(op.role, op.req), raw |-> SerializeAny(op.req),
              result |-> from_method_and_params(op.role, method_name(op.role, op.req),
                                                SerializeAny(op.req))]
    /\ UNCHANGED <<calls, conn, tracker>>

ResponseFromAny ==
    /\ op.kind = "response_from_any" /\ op.st = "input"
    /\ op' = [kind |-> op.kind, st |-> "done", role |-> op.role,
              rname |-> op.rname, any |-> op.any,
              result |-> response_from_any(op.role, op.rname, op.any)]
    /\ UNCHANGED <<calls, conn, tracker>>

NextCodec ==
    \/ DecodeRequest
    \/ DecodeResponse
    \/ RoundTrip
    \/ ResponseFromAny

SpecCodec == InitCodec /\ [][NextCodec]_vars

----------------------------------------------------------------------------
(* The whole dispatch path as functions of their inputs: the two decoders,
   response_from_any, and `call` given what its handler resolves to. *)

InitPath ==
    \/ InitCodec
    \/ /\ \E role \in Roles :
             op \in {[kind |-> "call", st |-> "input", role |-> role, req |-> req,
                      outcome |-> outcome] :
                        req \in AnyRequests(role), outcome \in AllOutcomes}
       /\ op.outcome \in HandlerOutcomes(VariantArm(op.role, VariantOf(op.req)))
       /\ calls = [c \in CallIds |-> IdleCall]
       /\ conn = InitConn
       /\ tracker = InitTracker

\* call(req) with a handler that resolves to op.outcome
Call ==
    /\ op.kind = "call" /\ op.st = "input"
    /\ op' = [kind |-> op.kind, st |-> "done", role |-> op.role, req |-> op.req,
              outcome |-> op.outcome, handler |-> HandlerOf(op.role, op.req),
              result |-> handler_trait_call_req(VariantArm(op.role, VariantOf(op.req)),
                                                op.outcome)]
    /\ UNCHANGED <<calls, conn, tracker>>

NextPath ==
    \/ NextCodec
    \/ Call

SpecPath == InitPath /\ [][NextPath]_vars

----------------------------------------------------------------------------
(* A connected pair (AgentConnection::connect_to_agent /
   ClientConnection::connect_to_client over two pipes).  Each side issues
   typed requests of the peer's role and serves its own role's requests.
   conn.pipe[s] holds the messages travelling to side s, in order;
   conn.pending[s] the requests side s has issued, indexed by their id;
   conn.running[s] the handler futures spawned at side s; conn.handled[s]
   what each of them resolved to. *)

\* requests issued over both directions together
MaxRequests == 2

\* the typed requests a side issues: the two of the end-to-end test and one
\* more method per direction
ConnRequests(s) ==
    IF s = "agent"
    THEN {<<"PushToolCallParams", [label |-> "test", icon |-> "FileSearch", content |-> None]>>,
          <<"UpdateToolCallParams", [tool_call_id |-> 0, status |-> "Running", content |-> None]>>}
    ELSE {<<"InitializeParams", UnitValue("InitializeParams")>>,
          <<"SendUserMessageParams", [message |-> [chunks |-> <<>>]]>>}

ConnOutcomes(e) ==
    {Ok(v) : v \in IF e.response_payload THEN ResponsePayloads(e.response_name) ELSE {Unit}}
    \cup {Err("boom")}

\* connection.request(params) for each request side s may issue: the
\* request wrapped by into_any, its method name and its serialized form
ConnIssue(s) ==
    {[rname |-> VariantOf(req),
      method |-> method_name(PeerRole(s), into_any(PeerRole(s), VariantOf(req), PayloadOf(req))),
      params |-> SerializeAny(into_any(PeerRole(s), VariantOf(req), PayloadOf(req)))] :
        req \in ConnRequests(s)}

\* The operators below tabulate, for every message the pair can exchange,
\* what the receiving code computes from it; the actions look the message
\* up, so that each is computed once rather than at every step.

\* from_method_and_params of side s's role on each request that can reach it
ConnDecoded ==
    [s \in Sides |->
        [w \in {[method |-> i.method, params |-> i.params] : i \in ConnIssue(Peer(s))} |->
            from_method_and_params(OwnRole(s), w.method, w.params)]]

\* the decoded requests side s may dispatch, each with an outcome of its handler
ConnCalls(s) ==
    UNION {{[req |-> ConnDecoded[s][w].val, outcome |-> o] :
               o \in ConnOutcomes(VariantArm(OwnRole(s), VariantOf(ConnDecoded[s][w].val)))} :
           w \in {x \in DOMAIN ConnDecoded[s] : ConnDecoded[s][x].ok}}

\* the answer written for the result of `call`: the serialized response
\* envelope, or the error
AnswerOf(result) ==
    IF result.ok THEN [kind |-> "response", body |-> SerializeAny(result.val)]
    ELSE [kind |-> "error", body |-> result.err]

ConnAnswer ==
    [s \in Sides |->
        [x \in ConnCalls(s) |->
            AnswerOf(handler_trait_call_req(VariantArm(OwnRole(s), VariantOf(x.req)),
                                            x.outcome))]]

\* every answer side s may write
ConnAnswers(s) ==
    {ConnAnswer[s][x] : x \in ConnCalls(s)}
    \cup {AnswerOf(ConnDecoded[s][w]) : w \in {x \in DOMAIN ConnDecoded[s] : ~ConnDecoded[s][x].ok}}

\* what a pending request of side s (its type R and method) completes with,
\* given an answer: the error, or the result decoded under the request's
\* method and unwrapped by R::response_from_any
Completion(s, rname, method, answer) ==
    IF answer.kind = "error" THEN Err(answer.body)
    ELSE LET any == response_from_method_and_result(PeerRole(s), method, answer.body)
         IN  IF any.ok THEN response_from_any(PeerRole(s), rname, any.val)
             ELSE Err(any.err)

ConnCompletion ==
    [s \in Sides |->
        [x \in {[rname |-> i.rname, method |-> i.method, answer |-> a] :
                   i \in ConnIssue(s), a \in ConnAnswers(Peer(s))} |->
            Completion(s, x.rname, x.method, x.answer)]]

\* connection.request(params): wrap, serialize, send under the method name
Request(s, i) ==
    /\ i \in ConnIssue(s)
    /\ Len(conn.pending["client"]) + Len(conn.pending["agent"]) < MaxRequests
    /\ conn' = [conn EXCEPT
                  !.pending[s] = Append(@, [rname |-> i.rname, method |-> i.method,
                                            result |-> None]),
                  !.pipe[Peer(s)] = Append(@, [kind |-> "request",
                                               id |-> Len(conn.pending[s]) + 1,
                                               body |-> [method |-> i.method,
                                                         params |-> i.params]])]
    /\ UNCHANGED <<op, calls, tracker>>

\* the io task of side s reads a request: decode, then spawn `call`, which
\* invokes the handler; a request that does not decode is answered at once
ReceiveRequest(s) ==
    /\ conn.pipe[s] # <<>>
    /\ Head(conn.pipe[s]).kind = "request"
    /\ LET msg == Head(conn.pipe[s])
           decoded == ConnDecoded[s][msg.body]
       IN  IF decoded.ok
           THEN conn' = [conn EXCEPT
                           !.pipe[s] = Tail(@),
                           !.running[s] = @ \cup {[id |-> msg.id, req |-> decoded.val,
                                                   handler |-> HandlerOf(OwnRole(s), decoded.val)]}]
           ELSE conn' = [conn EXCEPT
                           !.pipe[s] = Tail(@),
                           !.pipe[Peer(s)] = Append(@, [kind |-> "error", id |-> msg.id,
                                                        body |-> decoded.err])]
    /\ UNCHANGED <<op, calls, tracker>>

\* a spawned `call` finishes at side s and its answer is written to the peer
HandlerDone(s, r, outcome) ==
    /\ r \in conn.running[s]
    /\ [req |-> r.req, outcome |-> outcome] \in ConnCalls(s)
    /\ LET answer == ConnAnswer[s][[req |-> r.req, outcome |-> outcome]]
       IN  conn' = [conn EXCEPT
                      !.running[s] = @ \ {r},
                      !.handled[s] = @ \cup {[id |-> r.id, handler |-> r.handler,
                                              outcome |-> outcome]},
                      !.pipe[Peer(s)] = Append(@, [kind |-> answer.kind, id |-> r.id,
                                                   body |-> answer.body])]
    /\ UNCHANGED <<op, calls, tracker>>

\* the io task of side s reads an answer and completes the pending request
\* of the same id
ReceiveAnswer(s) ==
    /\ conn.pipe[s] # <<>>
    /\ Head(conn.pipe[s]).kind \in {"response", "error"}
    /\ LET msg == Head(conn.pipe[s])
           p == conn.pending[s][msg.id]
       IN  conn' = [conn EXCEPT
                      !.pipe[s] = Tail(@),
                      !.pending[s][msg.id].result =
                          Some(ConnCompletion[s][[rname |-> p.rname, method |-> p.method,
                                                  answer |-> [kind |-> msg.kind,
                                                              body |-> msg.body]]])]
    /\ UNCHANGED <<op, calls, tracker>>

ConnAllOutcomes == UNION {ConnOutcomes(e) : e \in Entries("Client") \cup Entries("Agent")}

\* the steps the spawned tasks take on their own
Progress ==
    \/ \E s \in Sides : ReceiveRequest(s)
    \/ \E s \in Sides : \E r \in conn.running[s] : \E outcome \in ConnAllOutcomes :
          HandlerDone(s, r, outcome)
    \/ \E s \in Sides : ReceiveAnswer(s)

NextConn ==
    \/ \E s \in Sides : \E i \in ConnIssue(s) : Request(s, i)
    \/ Progress

\* the io tasks and the handler futures are spawned on the executor and run
\* whenever they can
SpecConn == Init /\ [][NextConn]_vars /\ WF_vars(Progress)

----------------------------------------------------------------------------
(* The decode-then-dispatch pipeline of one side: an incoming message
   (method, raw params) is decoded by from_method_and_params; a message
   that decodes is handed to `call`, one that does not is answered with the
   decoder's error.  Messages are taken one after the other (calls[c].seq is
   the position of a message in the sequence) while the handlers of earlier
   messages may still be running. *)

\* the incoming messages: for each role a message that decodes into a
\* payload, one into a marker or a payload-less answer, one whose payload is
\* malformed and one whose method the role does not have
PipeMessages ==
    {[role |-> "Client", method |-> "pushToolCall",
      raw |-> JObj([label |-> JStr("test"), icon |-> JStr("fileSearch")])],
     [role |-> "Client", method |-> "pushToolCall", raw |-> JObj([label |-> JStr("test")])],
     [role |-> "Client", method |-> "PushToolCall",
      raw |-> JObj([label |-> JStr("test"), icon |-> JStr("fileSearch")])],
     [role |-> "Client", method |-> "updateToolCall",
      raw |-> JObj([toolCallId |-> JNum(0), status |-> JStr("running"), content |-> JNull])],
     [role |-> "Agent", method |-> "initialize", raw |-> JNull],
     [role |-> "Agent", method |-> "sendUserMessage", raw |-> JEmptyObj],
     [role |-> "Agent", method |-> "pushToolCall",
      raw |-> JObj([label |-> JStr("test"), icon |-> JStr("fileSearch")])]}

\* how many messages have been taken so far
Taken == Cardinality({d \in CallIds : calls[d].st # "idle"})

\* a message is taken: decode, then enter `call`, which invokes the handler
\* and awaits it; a message that does not decode is answered at once
Receive(c, m) ==
    /\ calls[c].st = "idle"
    /\ LET decoded == from_method_and_params(m.role, m.method, m.raw)
       IN  calls' = [calls EXCEPT ![c] =
                        IF decoded.ok
                        THEN [st |-> "awaiting", role |-> m.role, msg |-> m, seq |-> Taken + 1,
                              req |-> decoded.val,
                              invoked |-> <<[handler |-> HandlerOf(m.role, decoded.val),
                                             arg |-> HandlerArg(m.role, decoded.val)]>>]
                        ELSE [st |-> "rejected", role |-> m.role, msg |-> m, seq |-> Taken + 1,
                              invoked |-> <<>>, result |-> Err(decoded.err)]]
    /\ UNCHANGED <<op, conn, tracker>>

\* the handler's future resolves, `call` returns and the message is answered
Respond(c, outcome) ==
    /\ calls[c].st = "awaiting"
    /\ outcome \in HandlerOutcomes(VariantArm(calls[c].role, VariantOf(calls[c].req)))
    /\ calls' = [calls EXCEPT ![c] =
                    [st |-> "done", role |-> calls[c].role, msg |-> calls[c].msg,
                     seq |-> calls[c].seq, req |-> calls[c].req,
                     invoked |-> calls[c].invoked, outcome |-> outcome,
                     result |-> handler_trait_call_req(
                                    VariantArm(calls[c].role, VariantOf(calls[c].req)), outcome)]]
    /\ UNCHANGED <<op, conn, tracker>>

NextPipe ==
    \/ \E c \in CallIds : \E m \in PipeMessages : Receive(c, m)
    \/ \E c \in CallIds : \E outcome \in AllOutcomes : Respond(c, outcome)

SpecPipe == Init /\ [][NextPipe]_vars

----------------------------------------------------------------------------
(* A receiver of session updates keeping the tool calls of a session
   (SessionUpdate::ToolCall, SessionUpdate::ToolCallUpdate).  A ToolCall
   creates the record of its id; a ToolCallUpdate is merged into the record
   of its id: an absent field leaves the record's field as it is, a present
   field overwrites it. *)

\* the fields of an update that carries nothing
NoFields ==
    [kind |-> None, status |-> None, title |-> None, content |-> None,
     locations |-> None, raw_input |-> None, raw_output |-> None]

TextItem == <<"Content", [content |-> <<"Text", [annotations |-> None, text |-> "hi"]>>]>>

TextItemWire ==
    JObj([type |-> JStr("content"),
          content |-> JObj([type |-> JStr("text"), text |-> JStr("hi")])])

DiffItemWire ==
    JObj([type |-> JStr("diff"), path |-> JStr("/a"), oldText |-> JNull, newText |-> JStr("n")])

\* tool_call session updates as they arrive: one giving the id and title
\* only, one giving every field, one for a second tool call
ToolCallWires ==
    {JObj([toolCallId |-> JStr("tc1"), title |-> JStr("t1")]),
     JObj([toolCallId |-> JStr("tc1"), title |-> JStr("t1"), kind |-> JStr("read"),
           status |-> JStr("in_progress"), content |-> JArr(<<TextItemWire>>),
           locations |-> JArr(<<JObj([type |-> JStr("ToolCallLocation"), path |-> JStr("/a")])>>),
           rawInput |-> JObj([cmd |-> JStr("cat")])]),
     JObj([toolCallId |-> JStr("tc2"), title |-> JStr("other")]),
     \* no title: refused
     JObj([toolCallId |-> JStr("tc1")])}

Upd(id, wire, fields) == [id |-> id, wire |-> wire, fields |-> fields]

\* tool_call_update session updates as they arrive, each with the fields
\* it carries
ToolCallUpdates ==
    {Upd("tc1", JObj([toolCallId |-> JStr("tc1")]), NoFields),
     Upd("tc1", JObj([toolCallId |-> JStr("tc1"), status |-> JStr("pending")]),
         [NoFields EXCEPT !.status = Some("Pending")]),
     Upd("tc1", JObj([toolCallId |-> JStr("tc1"), status |-> JStr("in_progress")]),
         [NoFields EXCEPT !.status = Some("InProgress")]),
     Upd("tc1", JObj([toolCallId |-> JStr("tc1"), status |-> JStr("completed")]),
         [NoFields EXCEPT !.status = Some("Completed")]),
     Upd("tc1", JObj([toolCallId |-> JStr("tc1"), status |-> JStr("failed")]),
         [NoFields EXCEPT !.status = Some("Failed")]),
     Upd("tc1", JObj([toolCallId |-> JStr("tc1"), title |-> JStr("t2"), kind |-> JStr("edit")]),
         [NoFields EXCEPT !.title = Some("t2"), !.kind = Some("Edit")]),
     Upd("tc1", JObj([toolCallId |-> JStr("tc1"), content |-> JArr(<<DiffItemWire>>)]),
         [NoFields EXCEPT !.content = Some(<<DiffNoOld>>)]),
     Upd("tc1", JObj([toolCallId |-> JStr("tc1"), content |-> JArr(<<>>)]),
         [NoFields EXCEPT !.content = Some(<<>>)]),
     Upd("tc1", JObj([toolCallId |-> JStr("tc1"),
                      locations |-> JArr(<<JObj([path |-> JStr("/b"), line |-> JNum(3)])>>)]),
         [NoFields EXCEPT !.locations = Some(<<[path |-> "/b", line |-> Some(3)]>>)]),
     Upd("tc1", JObj([toolCallId |-> JStr("tc1"), rawInput |-> JObj([cmd |-> JStr("ls")]),
                      rawOutput |-> JStr("ok")]),
         [NoFields EXCEPT !.raw_input = Some(JObj([cmd |-> JStr("ls")])),
                          !.raw_output = Some(JStr("ok"))]),
     Upd("tc2", JObj([toolCallId |-> JStr("tc2"), status |-> JStr("completed")]),
         [NoFields EXCEPT !.status = Some("Completed")])}

\* the merge of an update's fields into a tool call
ApplyToolCallUpdate(tool_call, fields) ==
    [f \in DOMAIN tool_call |->
        IF f \in DOMAIN fields /\ IsSome(fields[f]) THEN fields[f].some ELSE tool_call[f]]

\* a tool_call update arrives: the record of its id is created
ReceiveToolCall(w) ==
    LET decoded == De(T_ToolCall, w)
    IN  IF decoded.ok
        THEN /\ tracker.records[decoded.val.id] = None
             /\ tracker' = [records |-> [tracker.records EXCEPT
                                            ![decoded.val.id] = Some(decoded.val)],
                            last |-> [kind |-> "create", wire |-> w, ok |-> TRUE,
                                      id |-> decoded.val.id]]
             /\ UNCHANGED <<op, calls, conn>>
        ELSE /\ tracker' = [tracker EXCEPT
                               !.last = [kind |-> "create", wire |-> w, ok |-> FALSE]]
             /\ UNCHANGED <<op, calls, conn>>

\* a tool_call_update arrives: it is merged into the record of its id; an
\* update for an id without a record is dropped
ReceiveToolCallUpdate(u) ==
    LET decoded == De(T_ToolCallUpdate, u.wire)
    IN  /\ tracker' =
              IF decoded.ok /\ IsSome(tracker.records[decoded.val.id])
              THEN [records |-> [tracker.records EXCEPT
                                   ![decoded.val.id] =
                                       Some(ApplyToolCallUpdate(@.some, decoded.val.fields))],
                    last |-> [kind |-> "update", update |-> u, ok |-> TRUE, applied |-> TRUE,
                              prior |-> tracker.records[decoded.val.id].some]]
              ELSE [tracker EXCEPT
                      !.last = [kind |-> "update", update |-> u, ok |-> decoded.ok,
                                applied |-> FALSE]]
        /\ UNCHANGED <<op, calls, conn>>

NextToolCall ==
    \/ \E w \in ToolCallWires : ReceiveToolCall(w)
    \/ \E u \in ToolCallUpdates : ReceiveToolCallUpdate(u)

SpecToolCall == Init /\ [][NextToolCall]_vars

----------------------------------------------------------------------------
(* Payloads of rust/client.rs, rust/content.rs and rust/tool_call.rs on the
   wire: one side serializes a typed value, the other decodes what arrived. *)

Option_(id, name, kind) == [id |-> id, name |-> name, kind |-> kind]

\* the option lists an agent offers
OfferedOptions ==
    {<<>>,
     <<Option_("allow", "Allow", "AllowOnce")>>,
     <<Option_("allow", "Allow", "AllowOnce"), Option_("reject", "Reject", "RejectOnce")>>,
     <<Option_("always", "Always allow", "AllowAlways"),
       Option_("never", "Never allow", "RejectAlways")>>}

InlineToolCall ==
    [id |-> "tc1", title |-> "Edit main.rs", kind |-> "Edit", status |-> "Pending",
     content |-> <<>>, locations |-> <<>>, raw_input |-> None, raw_output |-> None]

PermissionRequests ==
    {[session_id |-> "s1", tool_call |-> ref, options |-> opts] :
        ref \in {<<"Id", "tc1">>, <<"Inline", InlineToolCall>>}, opts \in OfferedOptions}

\* {"outcome": {"outcome": "cancelled"}}
CancelledWire == JObj(("outcome" :> JObj(("outcome" :> JStr("cancelled")))))

\* {"outcome": {"outcome": "selected", "optionId": id}}
SelectedWire(id) ==
    JObj(("outcome" :> JObj(("outcome" :> JStr("selected")) @@ ("optionId" :> JStr(id)))))

\* {"outcome": {"outcome": tag}}
OutcomeWire(tag) == JObj(("outcome" :> JObj(("outcome" :> JStr(tag)))))

PermissionOptionIds == {"allow", "reject", "always", "unknown"}

OtherOutcomeTags == {"allowed", "rejected", "Selected", "Cancelled", "timeout"}

PermissionResponseWires ==
    {CancelledWire}
    \cup {SelectedWire(id) : id \in PermissionOptionIds}
    \cup {OutcomeWire(tag) : tag \in OtherOutcomeTags \cup {"selected"}}
    \cup {JObj(("outcome" :> JObj(("outcome" :> JStr("selected"))
                                  @@ ("option_id" :> JStr("allow"))))),
          JObj(("outcome" :> JObj(("outcome" :> JStr("selected"))
                                  @@ ("optionId" :> JNum(1))))),
          JObj(("outcome" :> JObj(("outcome" :> JStr("allowed"))
                                  @@ ("optionId" :> JStr("allow"))))),
          JObj(("outcome" :> JObj(("optionId" :> JStr("allow"))))),
          JObj(("outcome" :> JStr("cancelled"))),
          JObj(("outcome" :> JNull)),
          JEmptyObj,
          JNull}

PermissionInputs ==
    {[kind |-> "permission", st |-> "input", request |-> rq, response |-> w] :
        rq \in PermissionRequests, w \in PermissionResponseWires}

SomeAnnotations ==
    {None,
     Some([audience |-> None, last_modified |-> None, priority |-> None]),
     Some([audience |-> Some(<<"User", "Assistant">>), last_modified |-> Some("2025-01-01"),
           priority |-> Some(1)])}

TextResources ==
    {<<"TextResourceContents", [mime_type |-> m, text |-> "fn main() {}", uri |-> "file:///a.rs"]>> :
        m \in {None, Some("text/x-rust")}}

BlobResources ==
    {<<"BlobResourceContents", [blob |-> "AAEC", mime_type |-> m, uri |-> "file:///a.bin"]>> :
        m \in {None, Some("application/octet-stream")}}

\* values of every outer variant
ContentBlocks ==
    {<<"Text", [annotations |-> a, text |-> "hello"]>> : a \in SomeAnnotations}
    \cup {<<"Image", [annotations |-> a, data |-> "iVBOR", mime_type |-> "image/png", uri |-> u]>> :
            a \in SomeAnnotations, u \in {None, Some("file:///a.png")}}
    \cup {<<"Audio", [annotations |-> a, data |-> "UklGR", mime_type |-> "audio/wav"]>> :
            a \in SomeAnnotations}
    \cup {<<"ResourceLink", [annotations |-> None, description |-> d, mime_type |-> None,
                             name |-> "a.rs", size |-> z, title |-> None, uri |-> "file:///a.rs"]>> :
            d \in {None, Some("source")}, z \in {None, Some(12)}}
    \cup {<<"Resource", [annotations |-> a, resource |-> r]>> :
            a \in {None, Some([audience |-> None, last_modified |-> None, priority |-> None])},
            r \in TextResources \cup BlobResources}

\* {"type": "resource", "resource": inner}
ResourceWire(inner) == JObj(("type" :> JStr("resource")) @@ ("resource" :> JObj(inner)))

\* the inner objects a sender may write for an embedded resource
InnerResourceWires ==
    {("text" :> JStr("fn main() {}")) @@ ("uri" :> JStr("file:///a.rs")),
     ("text" :> JStr("fn main() {}")) @@ ("uri" :> JStr("file:///a.rs"))
        @@ ("mimeType" :> JStr("text/x-rust")),
     ("text" :> JStr("fn main() {}")) @@ ("uri" :> JStr("file:///a.rs"))
        @@ ("mimeType" :> JNull),
     ("blob" :> JStr("AAEC")) @@ ("uri" :> JStr("file:///a.bin")),
     ("blob" :> JStr("AAEC")) @@ ("uri" :> JStr("file:///a.bin"))
        @@ ("mimeType" :> JStr("application/octet-stream")),
     ("blob" :> JStr("AAEC")) @@ ("text" :> JStr("fn main() {}"))
        @@ ("uri" :> JStr("file:///a.rs")),
     ("uri" :> JStr("file:///a.rs")),
     ("text" :> JStr("fn main() {}")),
     ("data" :> JStr("AAEC")) @@ ("uri" :> JStr("file:///a.bin")),
     ("blob" :> JNum(7)) @@ ("uri" :> JStr("file:///a.bin"))}

ContentInputs ==
    {[kind |-> "content_round_trip", st |-> "input", value |-> v] : v \in ContentBlocks}
    \cup {[kind |-> "content_decode", st |-> "input", wire |-> ResourceWire(i)] :
            i \in InnerResourceWires}

\* the declaration a payload of the wire inputs is written and read with
WireTypeOf(name) ==
    CASE name = "schema::Diff" -> T_Diff
      [] name = "tool_call::Diff" -> T_tool_call_Diff
      [] name = "UpdateToolCallParams" -> T_UpdateToolCallParams
      [] name = "PushToolCallParams" -> T_PushToolCallParams
      [] name = "ReadTextFileRequest" -> T_ReadTextFileRequest
      [] name = "ToolCallUpdate" -> T_ToolCallUpdate
      [] name = "ToolCallLocation" -> T_ToolCallLocation
      [] name = "ToolCall" -> T_ToolCall
      [] name = "ContentBlock" -> T_ContentBlock
      [] name = "RequestPermissionRequest" -> T_RequestPermissionRequest
      [] name = "RequestPermissionResponse" -> T_RequestPermissionResponse

\* payloads with optional fields, absent and present
OptionalPayloads(name) ==
    CASE name \in {"schema::Diff", "tool_call::Diff"} ->
            {[path |-> "/a", old_text |-> o, new_text |-> "n"] : o \in {None, Some("o")}}
      [] name = "UpdateToolCallParams" ->
            {[tool_call_id |-> 1, status |-> st, content |-> c] :
                st \in {"Running", "Finished"},
                c \in {None, Some(Markdown), Some(DiffNoOld), Some(DiffWithOld)}}
      [] name = "PushToolCallParams" ->
            {[label |-> "Edit", icon |-> "Pencil", content |-> c] :
                c \in {None, Some(Markdown)}}
      [] name = "ReadTextFileRequest" ->
            {[session_id |-> "s1", path |-> "/a", line |-> l, limit |-> n] :
                l \in {None, Some(3)}, n \in {None, Some(10)}}
      [] name = "ToolCallUpdate" ->
            {[id |-> "tc1", fields |-> f] :
                f \in {NoFields,
                       [NoFields EXCEPT !.status = Some("Completed")],
                       [NoFields EXCEPT !.title = Some("Edit"), !.kind = Some("Edit")],
                       [NoFields EXCEPT !.content = Some(<<TextItem>>),
                                        !.locations = Some(<<[path |-> "/a", line |-> None]>>)],
                       [NoFields EXCEPT !.raw_input = Some(JStr("in")),
                                        !.raw_output = Some(JNum(0))]}}
      [] name = "ToolCallLocation" ->
            {[path |-> "/a", line |-> l] : l \in {None, Some(7)}}

OptionalInputs ==
    UNION {{[kind |-> "optional", st |-> "input", ty |-> name, value |-> v] :
                v \in OptionalPayloads(name)} :
            name \in {"schema::Diff", "tool_call::Diff", "UpdateToolCallParams",
                      "PushToolCallParams", "ReadTextFileRequest", "ToolCallUpdate",
                      "ToolCallLocation"}}

\* the object without its null members: what a sender that omits writes
WithoutNulls(w) == JObj([m \in {x \in DOMAIN w.o : w.o[x] # JNull} |-> w.o[m]])

\* what may arrive where a ToolCallRef is expected: an id, a full record
\* as an object or as the array of its fields, and neither
ToolCallRefWires ==
    {JStr("tc1"), JStr(""), JNum(1), JNull, JBool(TRUE), JEmptyObj,
     JObj(("toolCallId" :> JStr("tc1"))),
     JArr(<<JStr("tc1"), JStr("Edit main.rs")>>),
     JArr(<<JStr("tc1")>>),
     JArr(<<>>)}
    \cup ToolCallWires

RefInputs == {[kind |-> "ref_decode", st |-> "input", wire |-> w] : w \in ToolCallRefWires}

\* what a newer peer may add to an object
ExtraValues == {JNum(1), JObj(("a" :> JStr("b")))}

RECURSIVE WithExtraField(_)

\* the JSON values that are jv with one member no declaration knows added
\* to one of its objects, the outermost or a nested one
WithExtraField(jv) ==
    IF jv.j = "obj"
    THEN {JObj(jv.o @@ ("unknownField" :> x)) : x \in ExtraValues}
         \cup UNION {{JObj([jv.o EXCEPT ![m] = n]) : n \in WithExtraField(jv.o[m])} :
                       m \in DOMAIN jv.o}
    ELSE IF jv.j = "arr"
    THEN UNION {{JArr([jv.a EXCEPT ![i] = n]) : n \in WithExtraField(jv.a[i])} :
                  i \in 1..Len(jv.a)}
    ELSE {}

\* a payload is read by a role's request decoder, by its response decoder,
\* or by the Deserialize of a type that is not in the catalog
DecodeVia(via, role, target, raw) ==
    CASE via = "request" -> from_method_and_params(role, target, raw)
      [] via = "response" -> response_from_method_and_result(role, target, raw)
      [] via = "type" -> De(WireTypeOf(target), raw)

\* payloads as Serialize writes them, of the types outside the catalog
TypedWires(name) ==
    CASE name \in {"ReadTextFileRequest", "ToolCallUpdate", "ToolCallLocation", "tool_call::Diff"} ->
            {Ser(WireTypeOf(name), v) : v \in OptionalPayloads(name)}
      [] name = "ToolCall" -> ToolCallWires
      [] name = "ContentBlock" -> {Ser(T_ContentBlock, v) : v \in ContentBlocks}
      [] name = "RequestPermissionRequest" ->
            {Ser(T_RequestPermissionRequest, v) : v \in PermissionRequests}
      [] name = "RequestPermissionResponse" ->
            {CancelledWire} \cup {SelectedWire(id) : id \in PermissionOptionIds}

\* rawInput and rawOutput are serde_json::Value: an object there is the
\* value itself, kept member by member, and has no unknown members
OpaqueKept(raw, x) ==
    \A m \in {"rawInput", "rawOutput"} : m \in DOMAIN raw.o => x.o[m] = raw.o[m]

\* the payloads that decode, each with one unknown member added
ExtraInputs ==
    UNION {{[kind |-> "extra", st |-> "input", via |-> via, role |-> role,
             target |-> method, raw |-> raw, extended |-> x] :
                x \in WithExtraField(raw)} :
            via \in {"request", "response"}, role \in Roles,
            method \in WireMethods("Client") \cup WireMethods("Agent"),
            raw \in {r \in RawPayloads : r.j = "obj"}}
    \cup
    UNION {UNION {{[kind |-> "extra", st |-> "input", via |-> "type", role |-> "Client",
                    target |-> name, raw |-> raw, extended |-> x] :
                       x \in {y \in WithExtraField(raw) : OpaqueKept(raw, y)}} :
                   raw \in TypedWires(name)} :
            name \in {"ReadTextFileRequest", "ToolCallUpdate", "ToolCallLocation",
                      "tool_call::Diff", "ToolCall", "ContentBlock",
                      "RequestPermissionRequest", "RequestPermissionResponse"}}

InitWire ==
    /\ \/ op \in PermissionInputs \cup ContentInputs \cup OptionalInputs \cup RefInputs
       \/ /\ op \in ExtraInputs
          /\ DecodeVia(op.via, op.role, op.target, op.raw).ok
    /\ calls = [c \in CallIds |-> IdleCall]
    /\ conn = InitConn
    /\ tracker = InitTracker

\* Client::request_permission, the agent's side: the request goes out and
\* the client reads it
SendPermissionRequest ==
    /\ op.kind = "permission" /\ op.st = "input"
    /\ op' = [kind |-> op.kind, st |-> "requested", request |-> op.request,
              response |-> op.response,
              wire |-> Ser(T_RequestPermissionRequest, op.request),
              received |-> De(T_RequestPermissionRequest,
                              Ser(T_RequestPermissionRequest, op.request))]
    /\ UNCHANGED <<calls, conn, tracker>>

\* the client's answer arrives and the agent decodes it
ReceivePermissionResponse ==
    /\ op.kind = "permission" /\ op.st = "requested"
    /\ op' = [kind |-> op.kind, st |-> "done", request |-> op.request,
              response |-> op.response, wire |-> op.wire, received |-> op.received,
              result |-> De(T_RequestPermissionResponse, op.response)]
    /\ UNCHANGED <<calls, conn, tracker>>

\* a content block is serialized by one side and decoded by the other
ContentRoundTrip ==
    /\ op.kind = "content_round_trip" /\ op.st = "input"
    /\ op' = [kind |-> op.kind, st |-> "done", value |-> op.value,
              wire |-> Ser(T_ContentBlock, op.value),
              result |-> De(T_ContentBlock, Ser(T_ContentBlock, op.value))]
    /\ UNCHANGED <<calls, conn, tracker>>

\* a content block written by a peer is decoded
DecodeContent ==
    /\ op.kind = "content_decode" /\ op.st = "input"
    /\ op' = [kind |-> op.kind, st |-> "done", wire |-> op.wire,
              result |-> De(T_ContentBlock, op.wire)]
    /\ UNCHANGED <<calls, conn, tracker>>

\* a payload is serialized
SerializePayload ==
    /\ op.kind = "optional" /\ op.st = "input"
    /\ op' = [kind |-> op.kind, st |-> "serialized", ty |-> op.ty, value |-> op.value,
              wire |-> Ser(WireTypeOf(op.ty), op.value)]
    /\ UNCHANGED <<calls, conn, tracker>>

\* the receiver decodes the payload as written, and as written by a sender
\* that omits what is absent
DecodePayload ==
    /\ op.kind = "optional" /\ op.st = "serialized"
    /\ op' = [kind |-> op.kind, st |-> "done", ty |-> op.ty, value |-> op.value,
              wire |-> op.wire,
              result |-> De(WireTypeOf(op.ty), op.wire),
              omitted |-> De(WireTypeOf(op.ty), WithoutNulls(op.wire))]
    /\ UNCHANGED <<calls, conn, tracker>>

\* the receiver decodes the payload with the added member; base is what
\* the payload without it decodes to
DecodeWithExtra ==
    /\ op.kind = "extra" /\ op.st = "input"
    /\ op' = [kind |-> op.kind, st |-> "done", via |-> op.via, role |-> op.role,
              target |-> op.target, raw |-> op.raw, extended |-> op.extended,
              base |-> DecodeVia(op.via, op.role, op.target, op.raw),
              result |-> DecodeVia(op.via, op.role, op.target, op.extended)]
    /\ UNCHANGED <<calls, conn, tracker>>

\* the tool_call member of a permission request is decoded
DecodeToolCallRef ==
    /\ op.kind = "ref_decode" /\ op.st = "input"
    /\ op' = [kind |-> op.kind, st |-> "done", wire |-> op.wire,
              result |-> De(T_ToolCallRef, op.wire)]
    /\ UNCHANGED <<calls, conn, tracker>>

NextWire ==
    \/ SendPermissionRequest
    \/ ReceivePermissionResponse
    \/ ContentRoundTrip
    \/ DecodeContent
    \/ SerializePayload
    \/ DecodePayload
    \/ DecodeWithExtra
    \/ DecodeToolCallRef

SpecWire == InitWire /\ [][NextWire]_vars

----------------------------------------------------------------------------
(* Properties of the role dispatcher, checked under Spec *)

Started(c) == calls[c].st \in {"awaiting", "done"}

Done(c) == calls[c].st = "done"

\* C1: a call invokes exactly one handler, once, and it is the handler
\* method the catalog declares for the request's variant, with the request's
\* payload as its argument when the entry declares one; this stays so after
\* the handler has returned, also with an error (no retry, no second handler).
C1_OneHandlerPerCall ==
    \A c \in CallIds :
        Started(c) =>
            /\ Len(calls[c].invoked) = 1
            /\ Cardinality({e \in Entries(calls[c].role) :
                               e.request_name = VariantOf(calls[c].req)}) = 1
            /\ \A e \in Entries(calls[c].role) :
                  e.request_name = VariantOf(calls[c].req) =>
                      /\ calls[c].invoked[1].handler = e.request_method
                      /\ calls[c].invoked[1].arg =
                            IF e.param_payload THEN Some(PayloadOf(calls[c].req)) ELSE None

\* a call whose handler failed, still with its single invocation of update_tool_call
C1_Witness ==
    \E c \in CallIds :
        /\ Done(c) /\ ~calls[c].outcome.ok
        /\ calls[c].role = "Client"
        /\ VariantOf(calls[c].req) = "UpdateToolCallParams"
        /\ calls[c].invoked = <<[handler |-> "update_tool_call",
                                 arg |-> Some(PayloadOf(calls[c].req))]>>

\* C2: when the handler succeeds, call returns Ok with the response variant
\* of the request's own catalog entry, carrying the handler's value (the
\* payload-less marker when the entry declares no response payload); two
\* calls of one role with the same request variant get the same response
\* variant, whatever their payloads and handler values.
C2_SuccessWrapsMatchingResponse ==
    /\ \A c \in CallIds :
          (Done(c) /\ calls[c].outcome.ok) =>
              /\ calls[c].result.ok
              /\ \A e \in Entries(calls[c].role) :
                    e.request_name = VariantOf(calls[c].req) =>
                        /\ VariantOf(calls[c].result.val) = e.response_name
                        /\ PayloadOf(calls[c].result.val) =
                              IF e.response_payload THEN calls[c].outcome.val
                              ELSE UnitValue(e.response_name)
    /\ \A c, d \in CallIds :
          (/\ Done(c) /\ calls[c].outcome.ok
           /\ Done(d) /\ calls[d].outcome.ok
           /\ calls[c].role = calls[d].role
           /\ VariantOf(calls[c].req) = VariantOf(calls[d].req)) =>
              VariantOf(calls[c].result.val) = VariantOf(calls[d].result.val)

\* two finished push_tool_call calls with different payloads and different
\* handler values, both answered with a PushToolCallResponse
C2_Witness ==
    \E c, d \in CallIds :
        /\ Done(c) /\ Done(d) /\ calls[c].outcome.ok /\ calls[d].outcome.ok
        /\ VariantOf(calls[c].req) = "PushToolCallParams"
        /\ VariantOf(calls[d].req) = "PushToolCallParams"
        /\ PayloadOf(calls[c].req) # PayloadOf(calls[d].req)
        /\ calls[c].result = Ok(<<"PushToolCallResponse", [id |-> 0]>>)
        /\ calls[d].result = Ok(<<"PushToolCallResponse", [id |-> 1]>>)

\* C3: when the handler returns an error, call returns Err with code
\* InternalError whose detail is the handler's failure message, for every
\* entry of both roles; it is never Ok.
C3_FailureBecomesInternalError ==
    \A c \in CallIds :
        (Done(c) /\ ~calls[c].outcome.ok) =>
            /\ ~calls[c].result.ok
            /\ calls[c].result.err.code = "InternalError"
            /\ calls[c].result.err.detail = Some(calls[c].outcome.err)

\* a failed initialize handler reported as InternalError("boom")
C3_Witness ==
    \E c \in CallIds :
        /\ Done(c)
        /\ calls[c].role = "Agent" /\ VariantOf(calls[c].req) = "InitializeParams"
        /\ calls[c].outcome = Err("boom")
        /\ calls[c].result = Err([code |-> "InternalError", detail |-> Some("boom")])

----------------------------------------------------------------------------
(* Properties of the envelope codec and the typed correlation layer,
   checked under SpecCodec *)

Applied(kind) == op.kind = kind /\ op.st = "done"

IsErr(r, code) == ~r.ok /\ r.err.code = code

\* the wire method strings written in the two acp_peer! invocations
ClientWireMethods ==
    {"streamAssistantMessageChunk", "requestToolCallConfirmation", "pushToolCall", "updateToolCall"}

AgentWireMethods == {"initialize", "authenticate", "sendUserMessage", "cancelSendMessage"}

WireMethodsOf(role) == IF role = "Client" THEN ClientWireMethods ELSE AgentWireMethods

\* C4: decode_request and decode_response of a role, given a method string
\* that is not exactly one of the role's wire method strings (another case,
\* a method of the other role only, any other text), fail with
\* MethodNotFound whatever the raw payload is.
C4_UnknownMethodNotFound ==
    (/\ Applied("decode_request") \/ Applied("decode_response")
     /\ op.method \notin WireMethodsOf(op.role)) =>
        /\ IsErr(op.result, "MethodNotFound")
        /\ op.result.err.detail = None

\* the Agent role is asked to decode "Initialize" with a payload that its
\* "initialize" would accept, and answers MethodNotFound
C4_Witness ==
    /\ Applied("decode_request")
    /\ op.role = "Agent" /\ op.method = "Initialize" /\ op.raw = JNull
    /\ IsErr(op.result, "MethodNotFound")

\* C5: round trip: decoding the serialized form of a request envelope under
\* the method name method_name gives for it returns Ok with the same variant
\* and an equal payload.
C5_RoundTrip ==
    Applied("round_trip") =>
        /\ op.result.ok
        /\ VariantOf(op.result.val) = VariantOf(op.req)
        /\ PayloadOf(op.result.val) = PayloadOf(op.req)
        /\ op.method \in WireMethodsOf(op.role)

\* a tool-call confirmation request carrying a diff without old text came back equal
C5_Witness ==
    /\ Applied("round_trip")
    /\ VariantOf(op.req) = "RequestToolCallConfirmationParams"
    /\ PayloadOf(op.req).content = Some(DiffNoOld)
    /\ op.method = "requestToolCallConfirmation"
    /\ op.result = Ok(op.req)

\* the methods whose entry declares a request payload / no request payload
PayloadRequestMethods ==
    ClientWireMethods \cup {"sendUserMessage"}

MarkerRequestMethods == {"initialize", "authenticate", "cancelSendMessage"}

\* the request variant each wire method string is declared with
RequestVariantOf(method) ==
    CASE method = "streamAssistantMessageChunk" -> "StreamAssistantMessageChunkParams"
      [] method = "requestToolCallConfirmation" -> "RequestToolCallConfirmationParams"
      [] method = "pushToolCall" -> "PushToolCallParams"
      [] method = "updateToolCall" -> "UpdateToolCallParams"
      [] method = "initialize" -> "InitializeParams"
      [] method = "authenticate" -> "AuthenticateParams"
      [] method = "sendUserMessage" -> "SendUserMessageParams"
      [] method = "cancelSendMessage" -> "CancelSendMessageParams"

\* C6: for an entry that declares a request payload, decode_request given a
\* raw payload that does not structurally match the request type fails with
\* ParseError carrying a non-empty detail; with any raw payload it answers
\* either that ParseError or an envelope of the entry's own variant, never
\* an envelope of another variant.
C6_MalformedPayloadParseError ==
    (/\ Applied("decode_request")
     /\ op.method \in WireMethodsOf(op.role)
     /\ op.method \in PayloadRequestMethods) =>
        /\ op.raw \in MalformedRaw => ~op.result.ok
        /\ ~op.result.ok =>
              /\ op.result.err.code = "ParseError"
              /\ IsSome(op.result.err.detail)
              /\ op.result.err.detail.some # ""
        /\ op.result.ok => VariantOf(op.result.val) = RequestVariantOf(op.method)

\* pushToolCall given a payload whose icon is no variant of Icon
C6_Witness ==
    /\ Applied("decode_request")
    /\ op.role = "Client" /\ op.method = "pushToolCall"
    /\ op.raw = JObj([label |-> JStr("test"), icon |-> JStr("FileSearch")])
    /\ op.result = Err([code |-> "ParseError", detail |-> Some("unknown variant")])

\* C7: for the entries that declare no request payload (initialize,
\* authenticate, cancelSendMessage) decode_request returns Ok with the
\* entry's marker variant for every raw payload.
C7_PayloadlessIgnoresRaw ==
    (/\ Applied("decode_request")
     /\ op.role = "Agent"
     /\ op.method \in MarkerRequestMethods) =>
        op.result = Ok(<<RequestVariantOf(op.method), UnitValue(RequestVariantOf(op.method))>>)

\* authenticate decoded from an empty object
C7_Witness ==
    /\ Applied("decode_request")
    /\ op.role = "Agent" /\ op.method = "authenticate" /\ op.raw = JEmptyObj
    /\ op.result = Ok(<<"AuthenticateParams", UnitValue("AuthenticateParams")>>)

\* the methods whose entry declares a response payload
PayloadResponseMethods == {"requestToolCallConfirmation", "pushToolCall", "initialize"}

\* the response variant each wire method string is declared with
ResponseVariantOf(method) ==
    CASE method = "streamAssistantMessageChunk" -> "StreamAssistantMessageChunkResponse"
      [] method = "requestToolCallConfirmation" -> "RequestToolCallConfirmationResponse"
      [] method = "pushToolCall" -> "PushToolCallResponse"
      [] method = "updateToolCall" -> "UpdateToolCallResponse"
      [] method = "initialize" -> "InitializeResponse"
      [] method = "authenticate" -> "AuthenticateResponse"
      [] method = "sendUserMessage" -> "SendUserMessageResponse"
      [] method = "cancelSendMessage" -> "CancelSendMessageResponse"

\* raw results no response type of schema.rs is written as
MalformedResult ==
    {JNull, JEmptyObj, JStr("x"), JNum(0), JArr(<<>>),
     JObj([isAuthenticated |-> JStr("yes")]), JObj([id |-> JStr("0")]),
     JObj([label |-> JStr("test")])}

\* C8: decode_response of a known method returns the entry's response
\* variant and is governed by the entry's response flag: with a response
\* payload declared, the raw result is parsed as the response type (the
\* parsed value on success, ParseError with the diagnostic on mismatch);
\* with none declared, the marker is returned for every raw result.  So
\* "initialize" must parse its result and "sendUserMessage" ignores it.
C8_DecodeResponseUsesResponseFlag ==
    (/\ Applied("decode_response")
     /\ op.method \in WireMethodsOf(op.role)) =>
        LET rv == ResponseVariantOf(op.method)
            parsed == De(TypeOf(rv), op.raw)
        IN  /\ op.method \in PayloadResponseMethods =>
                  /\ parsed.ok => op.result = Ok(<<rv, parsed.val>>)
                  /\ ~parsed.ok =>
                        op.result = Err([code |-> "ParseError", detail |-> Some(parsed.err)])
                  /\ op.raw \in MalformedResult => IsErr(op.result, "ParseError")
            /\ op.method \notin PayloadResponseMethods =>
                  op.result = Ok(<<rv, UnitValue(rv)>>)
            /\ (op.method = "initialize" /\ op.raw = JObj([isAuthenticated |-> JBool(TRUE)])) =>
                  op.result = Ok(<<"InitializeResponse", [is_authenticated |-> TRUE]>>)
            /\ op.method = "sendUserMessage" =>
                  op.result = Ok(<<"SendUserMessageResponse",
                                   UnitValue("SendUserMessageResponse")>>)

\* the result of "initialize" is parsed: an empty object is refused
C8_Witness ==
    /\ Applied("decode_response")
    /\ op.role = "Agent" /\ op.method = "initialize" /\ op.raw = JEmptyObj
    /\ op.result = Err([code |-> "ParseError", detail |-> Some("missing field")])

\* the outcome of R::response_from_any(a), with the detail text left open
ResponseFromAnyAnswers(detail) ==
    Applied("response_from_any") =>
        \A e \in Entries(op.role) :
            e.request_name = op.rname =>
                /\ op.result.ok <=> VariantOf(op.any) = e.response_name
                /\ op.result.ok =>
                      op.result.val = IF e.response_payload THEN PayloadOf(op.any) ELSE Unit
                /\ ~op.result.ok =>
                      op.result.err = [code |-> "InternalError", detail |-> Some(detail)]

\* C9 as stated: R::response_from_any(a) returns Ok(payload of a) (Ok(())
\* for a payload-less response) exactly when a is the response variant
\* declared for R's entry, and otherwise fails with InternalError with
\* detail "unexpected response".
C9_AsStated == ResponseFromAnyAnswers("unexpected response")

\* C9 amended: the same, the detail being "Unexpected Response" as
\* resp_from_any writes it.
C9_UnexpectedResponse == ResponseFromAnyAnswers("Unexpected Response")

\* AuthenticateParams offered the payload-less response of cancelSendMessage
C9_Witness ==
    /\ Applied("response_from_any")
    /\ op.role = "Agent" /\ op.rname = "AuthenticateParams"
    /\ op.any = <<"CancelSendMessageResponse", UnitValue("CancelSendMessageResponse")>>
    /\ IsErr(op.result, "InternalError")

----------------------------------------------------------------------------
(* End-to-end typed correlation, checked under SpecConn *)

Issued(s, id) == Len(conn.pending[s]) >= id

Completed(s, id) == Issued(s, id) /\ IsSome(conn.pending[s][id].result)

\* what a typed request of entry e is to complete with when the peer's
\* handler resolved to `outcome`
TypedAnswer(e, outcome) ==
    IF outcome.ok
    THEN Ok(IF e.response_payload THEN outcome.val ELSE Unit)
    ELSE Err([code |-> "InternalError", detail |-> Some(outcome.err)])

\* request id of side s has completed with the answer of the peer's handler
\* for that very request: the handler declared for the request's method ran
\* for this id and the completion is its value, typed as the request's own
\* response type
CompletedWithHandlerValue(s, id) ==
    /\ Completed(s, id)
    /\ \E h \in conn.handled[Peer(s)] :
          /\ h.id = id
          /\ \A e \in Entries(PeerRole(s)) :
                e.request_name = conn.pending[s][id].rname =>
                    /\ h.handler = e.request_method
                    /\ conn.pending[s][id].result.some = TypedAnswer(e, h.outcome)
                    /\ (h.outcome.ok /\ e.response_payload) =>
                          conn.pending[s][id].result.some.val
                              \in ResponsePayloads(e.response_name)

C10_NeverMisdelivered ==
    \A s \in Sides : \A id \in 1..MaxRequests :
        Completed(s, id) => CompletedWithHandlerValue(s, id)

\* C10: a typed request issued in either direction of a connected pair
\* eventually completes, with exactly the value the peer's handler returned
\* for it, typed as the request's own response type; no request ever
\* completes with the answer to another request or method.
C10_TypedCorrelation ==
    /\ [] C10_NeverMisdelivered
    /\ \A s \in Sides : \A id \in 1..MaxRequests :
          Issued(s, id) ~> CompletedWithHandlerValue(s, id)

\* the scenario of test_client_agent_communication: PushToolCallParams from
\* the agent side answered with the handler's id, InitializeParams from the
\* client side answered with the handler's is_authenticated
C10_Witness ==
    /\ Issued("agent", 1) /\ Issued("client", 1)
    /\ conn.pending["agent"][1].rname = "PushToolCallParams"
    /\ conn.pending["agent"][1].result = Some(Ok([id |-> 0]))
    /\ conn.pending["client"][1].rname = "InitializeParams"
    /\ conn.pending["client"][1].result = Some(Ok([is_authenticated |-> TRUE]))

----------------------------------------------------------------------------
(* Properties of the decode-then-dispatch pipeline, checked under SpecPipe *)

\* the handler method each wire method string is declared with
HandlerMethodOf(method) ==
    CASE method = "streamAssistantMessageChunk" -> "stream_assistant_message_chunk"
      [] method = "requestToolCallConfirmation" -> "request_tool_call_confirmation"
      [] method = "pushToolCall" -> "push_tool_call"
      [] method = "updateToolCall" -> "update_tool_call"
      [] method = "initialize" -> "initialize"
      [] method = "authenticate" -> "authenticate"
      [] method = "sendUserMessage" -> "send_user_message"
      [] method = "cancelSendMessage" -> "cancel_send_message"

TakenMsg(c) == calls[c].st # "idle"

Rejected(c) == calls[c].st = "rejected"

\* the message is one the role has a method for and whose raw params are
\* of the method's request type (or the method takes none)
Decodable(m) ==
    /\ m.method \in WireMethodsOf(m.role)
    /\ \/ m.method \in MarkerRequestMethods
       \/ De(TypeOf(RequestVariantOf(m.method)), m.raw).ok

\* a handler was invoked for a message only if the message decodes, and then
\* it is the one handler of the message's method, given the decoded variant
HandlerOnlyAfterDecode ==
    \A c \in CallIds :
        TakenMsg(c) =>
            /\ calls[c].invoked # <<>> =>
                  /\ Decodable(calls[c].msg)
                  /\ Len(calls[c].invoked) = 1
                  /\ calls[c].invoked[1].handler = HandlerMethodOf(calls[c].msg.method)
                  /\ VariantOf(calls[c].req) = RequestVariantOf(calls[c].msg.method)
            /\ ~Decodable(calls[c].msg) =>
                  /\ Rejected(c)
                  /\ calls[c].invoked = <<>>
                  /\ calls[c].result.err.code \in {"MethodNotFound", "ParseError"}

\* C11: no handler method is invoked for an incoming message whose
\* decode_request failed (MethodNotFound or ParseError), neither when the
\* message is taken nor at any later step; a handler invocation is always
\* preceded by a successful decode of that same message into the handler's
\* own variant.
C11_DecodeFailureShortCircuits ==
    /\ [] HandlerOnlyAfterDecode
    /\ [][\A c \in CallIds : Rejected(c) => calls'[c] = calls[c]]_vars

\* "PushToolCall" was refused without a handler, and the "pushToolCall"
\* taken after it reached push_tool_call
C11_Witness ==
    \E c, d \in CallIds :
        /\ Rejected(c) /\ calls[c].msg.method = "PushToolCall"
        /\ calls[c].result = Err([code |-> "MethodNotFound", detail |-> None])
        /\ calls[c].invoked = <<>>
        /\ calls[d].st = "done" /\ calls[d].seq = 2
        /\ calls[d].invoked[1].handler = "push_tool_call"

\* what a message is to be decoded into, whatever was processed before it
ExpectedRequest(m) ==
    <<RequestVariantOf(m.method),
      IF m.method \in MarkerRequestMethods THEN UnitValue(RequestVariantOf(m.method))
      ELSE De(TypeOf(RequestVariantOf(m.method)), m.raw).val>>

\* the error a message that does not decode is to be answered with
ExpectedRejection(m) ==
    IF m.method \notin WireMethodsOf(m.role)
    THEN Err([code |-> "MethodNotFound", detail |-> None])
    ELSE Err([code |-> "ParseError",
              detail |-> Some(De(TypeOf(RequestVariantOf(m.method)), m.raw).err)])

\* what a message of the given method is to be answered with once its
\* handler resolved to `outcome`
ExpectedResult(method, outcome) ==
    IF outcome.ok
    THEN Ok(<<ResponseVariantOf(method),
              IF method \in PayloadResponseMethods THEN outcome.val
              ELSE UnitValue(ResponseVariantOf(method))>>)
    ELSE Err([code |-> "InternalError", detail |-> Some(outcome.err)])

\* some message taken earlier failed: it did not decode, or its handler failed
FailedBefore(c) ==
    \E d \in CallIds :
        /\ TakenMsg(d) /\ calls[d].seq < calls[c].seq
        /\ calls[d].st \in {"rejected", "done"} /\ ~calls[d].result.ok

\* C12: failure isolation: the outcome of a message (decoded variant,
\* handler invoked, response or error) is determined by the message and its
\* own handler's outcome alone, whether or not earlier messages failed to
\* decode or had failing handlers: a message that decodes is dispatched and
\* answered also after failures, never refused or answered differently.
C12_FailureIsolation ==
    \A c \in CallIds :
        TakenMsg(c) =>
            IF Decodable(calls[c].msg)
            THEN /\ calls[c].st \in {"awaiting", "done"}
                 /\ calls[c].req = ExpectedRequest(calls[c].msg)
                 /\ Len(calls[c].invoked) = 1
                 /\ calls[c].invoked[1].handler = HandlerMethodOf(calls[c].msg.method)
                 /\ calls[c].st = "done" =>
                       calls[c].result = ExpectedResult(calls[c].msg.method, calls[c].outcome)
            ELSE /\ Rejected(c)
                 /\ calls[c].result = ExpectedRejection(calls[c].msg)

\* after a message that did not parse and ahead of nothing else,
\* "pushToolCall" was decoded, dispatched and answered as usual
C12_Witness ==
    \E c, d \in CallIds :
        /\ Rejected(c) /\ calls[c].seq = 1 /\ calls[c].result.err.code = "ParseError"
        /\ calls[d].st = "done" /\ calls[d].seq = 2 /\ FailedBefore(d)
        /\ calls[d].msg.method = "pushToolCall"
        /\ calls[d].req = <<"PushToolCallParams",
                            [label |-> "test", icon |-> "FileSearch", content |-> None]>>
        /\ calls[d].result = Ok(<<"PushToolCallResponse", [id |-> 0]>>)

----------------------------------------------------------------------------
(* Concurrent dispatch, checked under Spec *)

\* the wire method string a request variant is declared with
MethodOfVariant(variant) ==
    CHOOSE m \in ClientWireMethods \cup AgentWireMethods : RequestVariantOf(m) = variant

InFlight(c) == calls[c].st = "awaiting"

\* every call has invoked its own handler once, and a call that returned
\* has returned the response for its own request
OwnHandlerOwnResponse ==
    \A c \in CallIds :
        Started(c) =>
            /\ Len(calls[c].invoked) = 1
            /\ calls[c].invoked[1].handler = HandlerMethodOf(MethodOfVariant(VariantOf(calls[c].req)))
            /\ Done(c) =>
                  calls[c].result =
                      ExpectedResult(MethodOfVariant(VariantOf(calls[c].req)), calls[c].outcome)

\* a step of one call leaves every other call, and everything else, as it was
StepTouchesOneCall ==
    \E c \in CallIds :
        /\ \A d \in CallIds \ {c} : calls'[d] = calls[d]
        /\ UNCHANGED <<op, conn, tracker>>

\* C13: concurrent dispatch is safe: with several calls in flight and
\* interleaving at their handler suspension points, in every interleaving
\* each call invokes only its own handler, once, and returns the response
\* for its own request; a step of one call writes nothing another call or
\* anything else reads.
C13_ConcurrentDispatchSafe ==
    /\ [] OwnHandlerOwnResponse
    /\ [][StepTouchesOneCall]_vars

\* push_tool_call has returned its own response while an initialize call,
\* entered meanwhile, still awaits its handler
C13_Witness ==
    \E c, d \in CallIds :
        /\ Done(c) /\ VariantOf(calls[c].req) = "PushToolCallParams"
        /\ calls[c].result = Ok(<<"PushToolCallResponse", [id |-> 1]>>)
        /\ InFlight(d) /\ VariantOf(calls[d].req) = "InitializeParams"
        /\ calls[d].invoked = <<[handler |-> "initialize", arg |-> None]>>

----------------------------------------------------------------------------
(* Properties of the tool calls a receiver keeps, checked under SpecToolCall *)

UpdateFieldNames == {"kind", "status", "title", "content", "locations", "raw_input", "raw_output"}

\* the last step merged an update into the record of its id
Merged == tracker.last.kind = "update" /\ tracker.last.applied

\* the record the last update was merged into, after the merge
MergedRecord == tracker.records[tracker.last.update.id].some

Created == tracker.last.kind = "create" /\ tracker.last.ok

TerminalStatuses == {"Completed", "Failed"}

\* the status changes of the lifecycle Pending -> InProgress -> {Completed, Failed}
LifecycleSteps ==
    {<<"Pending", "InProgress">>, <<"InProgress", "Completed">>, <<"InProgress", "Failed">>}

\* a tool call announced without a status starts at Pending
StartsPending ==
    /\ (tracker.last.kind = "create" /\ "title" \in DOMAIN tracker.last.wire.o) => Created
    /\ (Created /\ "status" \notin DOMAIN tracker.last.wire.o) =>
          tracker.records[tracker.last.id].some.status = "Pending"

\* an update for a tool call that has a record is applied, never refused
UpdateTolerated ==
    (tracker.last.kind = "update" /\ IsSome(tracker.records[tracker.last.update.id])) =>
        tracker.last.ok /\ tracker.last.applied

----------------------------------------------------------------------------
(* The introspection tables against the decoders, checked under SpecCodec *)

\* the wire method strings of a role in the order of its acp_peer! invocation
DeclaredOrder(role) ==
    IF role = "Client"
    THEN <<"streamAssistantMessageChunk", "requestToolCallConfirmation",
           "pushToolCall", "updateToolCall">>
    ELSE <<"initialize", "authenticate", "sendUserMessage", "cancelSendMessage">>

TableNames(role) == {METHODS(role)[i].name : i \in DOMAIN METHODS(role)}

RowOf(role, name) ==
    METHODS(role)[CHOOSE i \in DOMAIN METHODS(role) : METHODS(role)[i].name = name]

\* the table of a role lists the role's entries once each, in declaration
\* order, under pairwise distinct names
TableListsCatalog(role) ==
    /\ [i \in DOMAIN METHODS(role) |-> METHODS(role)[i].name] = DeclaredOrder(role)
    /\ \A i, j \in DOMAIN METHODS(role) :
          METHODS(role)[i].name = METHODS(role)[j].name => i = j
    /\ \A i \in DOMAIN METHODS(role) :
          LET row == METHODS(role)[i]
          IN  /\ row.request_type = RequestVariantOf(row.name)
              /\ row.response_type = ResponseVariantOf(row.name)

\* C16: the introspection table of each role (CLIENT_METHODS,
\* AGENT_METHODS) lists exactly the role's catalog entries, once each, in
\* declaration order, with pairwise distinct wire method strings, and each
\* row agrees with the decoders: a name is in the table iff decode_request
\* and decode_response do not answer MethodNotFound for it; param_payload
\* (response_payload) is false iff decode_request (decode_response) returns
\* the marker whatever the raw input, and true iff it parses the raw input;
\* method_name of a request is the name of the row of its request type.
C16_MethodTableConsistent ==
    /\ \A role \in Roles : TableListsCatalog(role)
    /\ (Applied("decode_request") \/ Applied("decode_response")) =>
          (op.method \in TableNames(op.role) <=> ~IsErr(op.result, "MethodNotFound"))
    /\ (Applied("decode_request") /\ op.method \in TableNames(op.role)) =>
          LET row == RowOf(op.role, op.method)
          IN  /\ ~row.param_payload =>
                    op.result = Ok(<<row.request_type, UnitValue(row.request_type)>>)
              /\ row.param_payload =>
                    /\ op.raw \in MalformedRaw => IsErr(op.result, "ParseError")
                    /\ op.result.ok => op.result.val = <<row.request_type,
                                                         De(TypeOf(row.request_type), op.raw).val>>
    /\ (Applied("decode_response") /\ op.method \in TableNames(op.role)) =>
          LET row == RowOf(op.role, op.method)
          IN  /\ ~row.response_payload =>
                    op.result = Ok(<<row.response_type, UnitValue(row.response_type)>>)
              /\ row.response_payload =>
                    /\ op.raw \in MalformedResult => IsErr(op.result, "ParseError")
                    /\ op.result.ok => op.result.val = <<row.response_type,
                                                         De(TypeOf(row.response_type), op.raw).val>>
    /\ Applied("round_trip") =>
          /\ op.method \in TableNames(op.role)
          /\ RowOf(op.role, op.method).request_type = VariantOf(op.req)

\* "authenticate", whose row has both flags false, decoded as a response
\* from a string: the marker, the raw result unread
C16_Witness ==
    /\ Applied("decode_response")
    /\ op.role = "Agent" /\ op.method = "authenticate" /\ op.raw = JStr("x")
    /\ RowOf("Agent", "authenticate") =
          [name |-> "authenticate", request_type |-> "AuthenticateParams",
           param_payload |-> FALSE, response_type |-> "AuthenticateResponse",
           response_payload |-> FALSE]
    /\ op.result = Ok(<<"AuthenticateResponse", UnitValue("AuthenticateResponse")>>)

----------------------------------------------------------------------------
(* The error taxonomy on the dispatch path, checked under SpecPath *)

FixedCodes == {"ParseError", "MethodNotFound", "InternalError", "InvalidRequest"}

\* the result is Ok(value) or Err of a code with an optional detail text
Structured(r) ==
    /\ DOMAIN r \in {{"ok", "val"}, {"ok", "err"}}
    /\ ~r.ok => DOMAIN r.err = {"code", "detail"}

\* C17: every failure produced on the dispatch path (decode_request,
\* decode_response, call, response_from_any), for every input and every
\* handler outcome, is an error carrying one of the fixed codes ParseError,
\* MethodNotFound, InternalError, InvalidRequest: the decoders fail with
\* MethodNotFound or ParseError only, call and response_from_any with
\* InternalError only.
C17_FixedErrorCodes ==
    op.st = "done" =>
        /\ Structured(op.result)
        /\ ~op.result.ok =>
              /\ op.result.err.code \in FixedCodes
              /\ op.kind \in {"decode_request", "decode_response"} =>
                    op.result.err.code \in {"MethodNotFound", "ParseError"}
              /\ op.kind \in {"call", "response_from_any"} =>
                    op.result.err.code = "InternalError"
              /\ op.kind = "round_trip" => FALSE

\* call answered a failing request_tool_call_confirmation handler with InternalError
C17_Witness ==
    /\ op.kind = "call" /\ op.st = "done"
    /\ op.handler = "request_tool_call_confirmation"
    /\ op.outcome = Err("boom")
    /\ op.result = Err([code |-> "InternalError", detail |-> Some("boom")])

----------------------------------------------------------------------------
(* Permission negotiation, checked under SpecWire *)

\* the option ids the decoded request offers
OfferedIds(rq) == {rq.options[i].id : i \in 1..Len(rq.options)}

\* the tag of the outcome object of a response, where it has one
OutcomeTagOf(w) ==
    IF w.j = "obj" /\ "outcome" \in DOMAIN w.o /\ w.o["outcome"].j = "obj"
       /\ "outcome" \in DOMAIN w.o["outcome"].o /\ w.o["outcome"].o["outcome"].j = "str"
    THEN Some(w.o["outcome"].o["outcome"].s)
    ELSE None

\* C18: decoding a RequestPermissionResponse whose outcome is Selected with
\* an option id succeeds with that id whatever the options of the request
\* were, offered or not; a response that decodes carries the outcome
\* Cancelled or Selected under the tag "cancelled" or "selected", and no
\* other tag decodes.
C18_SelectedIdUnchecked ==
    (op.kind = "permission" /\ op.st = "done") =>
        /\ op.received = Ok(op.request)
        /\ \A id \in PermissionOptionIds :
              op.response = SelectedWire(id) =>
                  op.result = Ok([outcome |-> <<"Selected", [option_id |-> id]>>])
        /\ op.response = CancelledWire =>
              op.result = Ok([outcome |-> <<"Cancelled", EmptyFcn>>])
        /\ op.result.ok =>
              /\ VariantOf(op.result.val.outcome) \in {"Cancelled", "Selected"}
              /\ OutcomeTagOf(op.response) \in {Some("cancelled"), Some("selected")}
        /\ OutcomeTagOf(op.response) \notin {Some("cancelled"), Some("selected")} =>
              ~op.result.ok

\* a Selected outcome naming an option that was not among the two offered decoded
C18_Witness ==
    /\ op.kind = "permission" /\ op.st = "done"
    /\ op.received.ok
    /\ OfferedIds(op.received.val) = {"allow", "reject"}
    /\ op.response = SelectedWire("unknown")
    /\ op.result = Ok([outcome |-> <<"Selected", [option_id |-> "unknown"]>>])

----------------------------------------------------------------------------
(* Content blocks, checked under SpecWire *)

ContentTag(variant) == ByRust(T_ContentBlock.variants, variant).wire

\* the members of the inner resource object of a "resource" block
InnerOf(w) == DOMAIN w.o["resource"].o

\* C19: a content block of any outer variant (Text, Image, Audio,
\* ResourceLink, Resource) that is serialized and decoded comes back equal,
\* its wire form carrying the tag of that one variant; an embedded resource
\* whose inner object has text and uri and no blob decodes to
\* TextResourceContents, one with blob and uri and no text to
\* BlobResourceContents.
C19_ContentRoundTrip ==
    /\ (op.kind = "content_round_trip" /\ op.st = "done") =>
          /\ op.result = Ok(op.value)
          /\ op.wire.o["type"] = JStr(ContentTag(VariantOf(op.value)))
          /\ \A v \in {"Text", "Image", "Audio", "ResourceLink", "Resource"} :
                v # VariantOf(op.value) => op.wire.o["type"] # JStr(ContentTag(v))
    /\ (op.kind = "content_decode" /\ op.st = "done") =>
          /\ ({"text", "uri"} \subseteq InnerOf(op.wire) /\ "blob" \notin InnerOf(op.wire)) =>
                /\ op.result.ok
                /\ VariantOf(op.result.val) = "Resource"
                /\ VariantOf(PayloadOf(op.result.val).resource) = "TextResourceContents"
          /\ ({"blob", "uri"} \subseteq InnerOf(op.wire) /\ "text" \notin InnerOf(op.wire)
                /\ op.wire.o["resource"].o["blob"].j = "str") =>
                /\ op.result.ok
                /\ VariantOf(op.result.val) = "Resource"
                /\ VariantOf(PayloadOf(op.result.val).resource) = "BlobResourceContents"

\* a blob-shaped embedded resource was decoded to the blob variant
C19_Witness ==
    /\ op.kind = "content_decode" /\ op.st = "done"
    /\ InnerOf(op.wire) = {"blob", "uri"}
    /\ op.result =
          Ok(<<"Resource",
               [annotations |-> None,
                resource |-> <<"BlobResourceContents",
                               [blob |-> "AAEC", mime_type |-> None, uri |-> "file:///a.bin"]>>]>>)

----------------------------------------------------------------------------
(* Optional fields on the wire, checked under SpecWire *)

Serialized == op.kind = "optional" /\ op.st \in {"serialized", "done"}

NullMembers(w) == {m \in DOMAIN w.o : w.o[m] = JNull}

\* the members an absent Option field without skip_serializing_if leaves
\* in the payload
NullableAbsent ==
    CASE op.ty \in {"schema::Diff", "tool_call::Diff"} ->
            IF op.value.old_text = None THEN {"oldText"} ELSE {}
      [] op.ty = "UpdateToolCallParams" ->
            IF op.value.content = None THEN {"content"} ELSE {}
      [] OTHER -> {}

\* C20 (as amended): an absent optional field declared with
\* skip_serializing_if (ReadTextFileRequest.line/limit, every field of
\* ToolCallUpdateFields, PushToolCallParams.content, ToolCallLocation.line)
\* is left out of the serialized payload and never written as null; an
\* absent Diff.old_text or UpdateToolCallParams.content is written as null;
\* decoding gives the payload back both from the form as written and from
\* the form with the absent fields left out.
C20_OmittedUnlessNullable ==
    /\ Serialized => NullMembers(op.wire) = NullableAbsent
    /\ (op.kind = "optional" /\ op.st = "done") =>
          /\ op.result = Ok(op.value)
          /\ op.omitted = Ok(op.value)

\* a file-read request without line and limit went out without the two
\* members and was read back
C20_Witness ==
    /\ op.kind = "optional" /\ op.st = "done" /\ op.ty = "ReadTextFileRequest"
    /\ op.value.line = None /\ op.value.limit = None
    /\ DOMAIN op.wire.o = {"sessionId", "path"}
    /\ op.omitted = Ok(op.value)

\* C20 (as stated): in the serialized form of a payload an optional field whose
\* value is absent is omitted and never written as null (Diff.old_text,
\* UpdateToolCallParams.content, ReadTextFileRequest.line/limit and the
\* fields of ToolCallUpdateFields included), and decoding the form with the
\* field omitted gives the payload back.
C20_AsStated ==
    /\ Serialized => NullMembers(op.wire) = {}
    /\ (op.kind = "optional" /\ op.st = "done") => op.omitted = Ok(op.value)

----------------------------------------------------------------------------
(* Forward compatibility, checked under SpecWire *)

----------------------------------------------------------------------------
(* Untagged unions, checked under SpecWire *)

ContentDecoded == op.kind = "content_decode" /\ op.st = "done"

RefDecoded == op.kind = "ref_decode" /\ op.st = "done"

\* the inner resource object as a JSON value
InnerResource(w) == w.o["resource"]

\* the body satisfies the required-field shape of the variant
Satisfies(ty, jv) == De(ty, jv).ok

\* the body of an embedded resource satisfies both variants
Ambiguous(w) ==
    /\ Satisfies(T_TextResourceContents, InnerResource(w))
    /\ Satisfies(T_BlobResourceContents, InnerResource(w))

\* C22 (as amended): an untagged union is decoded to the first declared
\* variant whose shape the payload satisfies, and rejected only when it
\* satisfies none.  An embedded resource body carrying text, blob and uri
\* satisfies both variants and decodes to TextResourceContents, its blob
\* ignored.  No payload satisfies both variants of ToolCallRef: a string
\* decodes to Id, a full tool call record to Inline, anything else is
\* rejected.
C22_FirstVariantWins ==
    /\ ContentDecoded =>
          /\ Satisfies(T_TextResourceContents, InnerResource(op.wire)) =>
                /\ op.result.ok
                /\ PayloadOf(op.result.val).resource =
                      <<"TextResourceContents",
                        De(T_TextResourceContents, InnerResource(op.wire)).val>>
          /\ (~Satisfies(T_TextResourceContents, InnerResource(op.wire))
               /\ Satisfies(T_BlobResourceContents, InnerResource(op.wire))) =>
                /\ op.result.ok
                /\ VariantOf(PayloadOf(op.result.val).resource) = "BlobResourceContents"
          /\ (~Satisfies(T_TextResourceContents, InnerResource(op.wire))
               /\ ~Satisfies(T_BlobResourceContents, InnerResource(op.wire))) =>
                ~op.result.ok
    /\ RefDecoded =>
          /\ ~(Satisfies(T_tool_call_ToolCallId, op.wire) /\ Satisfies(T_ToolCall, op.wire))
          /\ op.wire.j = "str" => op.result = Ok(<<"Id", op.wire.s>>)
          /\ Satisfies(T_ToolCall, op.wire) =>
                op.result = Ok(<<"Inline", De(T_ToolCall, op.wire).val>>)
          /\ (op.wire.j # "str" /\ ~Satisfies(T_ToolCall, op.wire)) => ~op.result.ok

\* a body carrying text, blob and uri was decoded to the text variant
C22_Witness ==
    /\ ContentDecoded
    /\ InnerOf(op.wire) = {"blob", "text", "uri"}
    /\ Ambiguous(op.wire)
    /\ op.result.ok
    /\ VariantOf(PayloadOf(op.result.val).resource) = "TextResourceContents"

\* C22 (as stated): a payload that satisfies more than one variant of an
\* untagged union is rejected: an embedded resource body carrying both
\* text and blob (with uri) decodes to neither variant, and likewise a
\* ToolCallRef payload that satisfies both Id and Inline.
C22_AsStated ==
    /\ (ContentDecoded /\ Ambiguous(op.wire)) => ~op.result.ok
    /\ (RefDecoded /\ Satisfies(T_tool_call_ToolCallId, op.wire)
         /\ Satisfies(T_ToolCall, op.wire)) => ~op.result.ok

====
